---- MODULE Spec2Model ----
(***************************************************************************)
(* Model of the astrochat request pipeline: HoroscopeService               *)
(* .generate_horoscope_direct and the services it drives (CacheService on  *)
(* a Redis store, calculate_zodiac, ChromaService, GeminiService,          *)
(* TranslationService), with the administrative cache operations.          *)
(*                                                                         *)
(* Strings that only travel through the program are TLA+ strings; a text   *)
(* whose content is inspected (insights) is a sequence of string tokens,   *)
(* "" being the empty sequence.  Time is in seconds.                       *)
(***************************************************************************)
EXTENDS Integers, Sequences, FiniteSets, TLC

VARIABLES
    redis_client,        \* CacheService.redis_client: "client" or None
    chroma_service,      \* HoroscopeService.chroma_service: "chroma" or None
    gemini_client,       \* GeminiService.client: "model" or None
    translation_service, \* HoroscopeService.translation_service: None, or its is_initialized state
    panchang_configured, \* PanchangService: api_url and api_key both set
    store,               \* the Redis keyspace: key -> [value, expires] or NoEntry
    now,                 \* the clock, seconds
    ticks,               \* clock steps taken
    nreq,                \* requests started
    pc,                  \* position of the request being handled
    request,             \* the HoroscopeDirectRequest being handled
    read_ok,             \* the cache read just made reached the store
    cached_response,     \* local cached_response
    zodiac,              \* local zodiac
    failed_topics,       \* topics whose ChromaDB query raised in this call
    all_horoscopes,      \* local all_horoscopes
    gemini_outcome,      \* what client.generate_content did in the step just taken
    insight,             \* local insight (the synthesized English text)
    translate_outcome,   \* what the translation model did in the step just taken
    response,            \* the response returned (or being built)
    cache_success,       \* local cache_success
    trace,               \* collaborator calls made by this call, in order
    first,               \* the first call that returned a result, where calls are followed
    cache_call,          \* the last call made of CacheService itself: operation, reply, result
    clearing,            \* local keys of a clear_all_cache between its KEYS and its DEL
    users,               \* the users table: the rows in id order, ids from 1
    calls,               \* the locals of each of the calls that run concurrently
    vector_store         \* the ChromaDB directory: its collections, the documents in "horoscopes"

vars == <<redis_client, chroma_service, gemini_client, translation_service,
          panchang_configured, store, now, ticks, nreq, pc, request,
          read_ok, cached_response, zodiac, failed_topics, all_horoscopes,
          gemini_outcome, insight, translate_outcome, response, cache_success,
          trace, first, cache_call, clearing, users, calls,
          vector_store>>

config_vars == <<redis_client, chroma_service, gemini_client,
                 translation_service, panchang_configured>>

call_vars == <<request, read_ok, cached_response, zodiac,
               failed_topics, all_horoscopes, gemini_outcome, insight,
               translate_outcome, response, cache_success, trace>>

-----------------------------------------------------------------------------
(* Bounds of the model *)

MaxRequests == 2
MaxTicks == 2
MaxUsers == 2

-----------------------------------------------------------------------------
(* Values *)

None == "<None>"                 \* Python None, where a str may stand
Nil == [absent |-> TRUE]         \* Python None, where a dict may stand
NoEntry == Nil                   \* no such key in the store
NoResponse == Nil                \* no HoroscopeDirectResponse (yet)
NoCall == Nil                    \* no call
NotFollowed == [followed |-> FALSE]  \* no call is kept for comparison
NoOutcome == Nil                 \* no collaborator outcome

cache_ttl_minutes == 30
SecondsPerMinute == 60

\* A time to live that takes the minutes for seconds
cache_ttl_in_minutes == cache_ttl_minutes
\* CacheService.cache_ttl
cache_ttl == cache_ttl_minutes * SecondsPerMinute

Pad2(n) == IF n < 10 THEN "0" \o ToString(n) ELSE ToString(n)

\* birth_date.strftime("%Y-%m-%d")
strftime(d) == ToString(d.year) \o "-" \o Pad2(d.month) \o "-" \o Pad2(d.day)

\* x or ""
OrEmpty(x) == IF x = None THEN "" ELSE x

Date(y, m, d) == [year |-> y, month |-> m, day |-> d]

\* The identities of the requests: name, birth_date, and the optional
\* birth_time and birth_place
Identities ==
    { [name |-> "Priya", birth_date |-> Date(1995, 8, 20),
       birth_time |-> "14:30", birth_place |-> "Mumbai, India"],
      [name |-> "Asha", birth_date |-> Date(1990, 1, 1),
       birth_time |-> None, birth_place |-> None] }

\* Two identities accepted by HoroscopeDirectRequest whose joined details are
\* the same string: the name of one ends with the birth date of the other
CollidingIdentities ==
    { [name |-> "Asha", birth_date |-> Date(1990, 1, 1),
       birth_time |-> "1995-08-20_14:30", birth_place |-> "Pune"],
      [name |-> "Asha_1990-01-01", birth_date |-> Date(1995, 8, 20),
       birth_time |-> "14:30", birth_place |-> "Pune"] }

Languages == {None, "en", "Hi", "fr"}

\* str.lower() on the language codes in use
lower(s) == CASE s = "Hi" -> "hi"
              [] s = "EN" -> "en"
              [] OTHER -> s

\* TranslationService.supported_languages
supported_languages ==
    [c \in {"en", "hi", "bn", "ta", "te", "mr", "gu", "kn", "ml", "pa", "or", "as"} |->
        CASE c = "en" -> "eng_Latn" [] c = "hi" -> "hin_Deva"
          [] c = "bn" -> "ben_Beng" [] c = "ta" -> "tam_Taml"
          [] c = "te" -> "tel_Telu" [] c = "mr" -> "mar_Deva"
          [] c = "gu" -> "guj_Gujr" [] c = "kn" -> "kan_Knda"
          [] c = "ml" -> "mal_Mlym" [] c = "pa" -> "pan_Guru"
          [] c = "or" -> "ory_Orya" [] c = "as" -> "asm_Beng"]

Whitespace == {" ", "\n"}

RECURSIVE lstrip(_)
lstrip(t) == IF t # <<>> /\ Head(t) \in Whitespace THEN lstrip(Tail(t)) ELSE t

RECURSIVE rstrip(_)
rstrip(t) == IF t # <<>> /\ t[Len(t)] \in Whitespace
             THEN rstrip(SubSeq(t, 1, Len(t) - 1)) ELSE t

\* str.strip()
strip(t) == rstrip(lstrip(t))

Contains(t, tok) == \E i \in 1..Len(t) : t[i] = tok

-----------------------------------------------------------------------------
(* app/utils.py *)

\* A table that gives every sign one calendar month
calculate_zodiac_by_month(birth_date) ==
    LET month == birth_date.month
    IN  CASE month = 1 -> "aquarius" [] month = 2 -> "pisces"
          [] month = 3 -> "aries" [] month = 4 -> "taurus"
          [] month = 5 -> "gemini" [] month = 6 -> "cancer"
          [] month = 7 -> "leo" [] month = 8 -> "virgo"
          [] month = 9 -> "libra" [] month = 10 -> "scorpio"
          [] month = 11 -> "sagittarius" [] month = 12 -> "capricorn"

\* The table with Aries starting a day late
calculate_zodiac_late_aries(birth_date) ==
    LET month == birth_date.month
        day == birth_date.day
    IN  IF (month = 3 /\ day >= 22) \/ (month = 4 /\ day <= 19) THEN "aries"
        ELSE IF (month = 4 /\ day >= 20) \/ (month = 5 /\ day <= 20) THEN "taurus"
        ELSE IF (month = 5 /\ day >= 21) \/ (month = 6 /\ day <= 21) THEN "gemini"
        ELSE IF (month = 6 /\ day >= 22) \/ (month = 7 /\ day <= 22) THEN "cancer"
        ELSE IF (month = 7 /\ day >= 23) \/ (month = 8 /\ day <= 22) THEN "leo"
        ELSE IF (month = 8 /\ day >= 23) \/ (month = 9 /\ day <= 22) THEN "virgo"
        ELSE IF (month = 9 /\ day >= 23) \/ (month = 10 /\ day <= 22) THEN "libra"
        ELSE IF (month = 10 /\ day >= 23) \/ (month = 11 /\ day <= 21) THEN "scorpio"
        ELSE IF (month = 11 /\ day >= 22) \/ (month = 12 /\ day <= 21) THEN "sagittarius"
        ELSE IF (month = 12 /\ day >= 22) \/ (month = 1 /\ day <= 19) THEN "capricorn"
        ELSE IF (month = 1 /\ day >= 20) \/ (month = 2 /\ day <= 18) THEN "aquarius"
        ELSE "pisces"
\* calculate_zodiac: the sign of a birth date, from its month and day
calculate_zodiac(birth_date) ==
    LET month == birth_date.month
        day == birth_date.day
    IN  IF (month = 3 /\ day >= 21) \/ (month = 4 /\ day <= 19) THEN "aries"
        ELSE IF (month = 4 /\ day >= 20) \/ (month = 5 /\ day <= 20) THEN "taurus"
        ELSE IF (month = 5 /\ day >= 21) \/ (month = 6 /\ day <= 21) THEN "gemini"
        ELSE IF (month = 6 /\ day >= 22) \/ (month = 7 /\ day <= 22) THEN "cancer"
        ELSE IF (month = 7 /\ day >= 23) \/ (month = 8 /\ day <= 22) THEN "leo"
        ELSE IF (month = 8 /\ day >= 23) \/ (month = 9 /\ day <= 22) THEN "virgo"
        ELSE IF (month = 9 /\ day >= 23) \/ (month = 10 /\ day <= 22) THEN "libra"
        ELSE IF (month = 10 /\ day >= 23) \/ (month = 11 /\ day <= 21) THEN "scorpio"
        ELSE IF (month = 11 /\ day >= 22) \/ (month = 12 /\ day <= 21) THEN "sagittarius"
        ELSE IF (month = 12 /\ day >= 22) \/ (month = 1 /\ day <= 19) THEN "capricorn"
        ELSE IF (month = 1 /\ day >= 20) \/ (month = 2 /\ day <= 18) THEN "aquarius"
        ELSE "pisces"

\* A capitalize that leaves the string as it is
capitalize_unchanged(z) == z
\* str.capitalize() on the twelve labels
capitalize(z) ==
    CASE z = "aries" -> "Aries" [] z = "taurus" -> "Taurus"
      [] z = "gemini" -> "Gemini" [] z = "cancer" -> "Cancer"
      [] z = "leo" -> "Leo" [] z = "virgo" -> "Virgo"
      [] z = "libra" -> "Libra" [] z = "scorpio" -> "Scorpio"
      [] z = "sagittarius" -> "Sagittarius" [] z = "capricorn" -> "Capricorn"
      [] z = "aquarius" -> "Aquarius" [] z = "pisces" -> "Pisces"

-----------------------------------------------------------------------------
(* app/services/cache_service.py *)

\* hashlib.md5(...).hexdigest(): a digest, one per pre-hash string
md5_hexdigest(user_data) == "md5(" \o user_data \o ")"

\* A key that leaves the birth place out of the hashed string
_generate_cache_key_placeless(user_name, birth_date, birth_time, birth_place) ==
    LET user_data == user_name \o "_" \o birth_date \o "_" \o birth_time
    IN  "horoscope:" \o md5_hexdigest(user_data)
\* _generate_cache_key: "horoscope:" and the digest of the joined details
_generate_cache_key(user_name, birth_date, birth_time, birth_place) ==
    LET user_data == user_name \o "_" \o birth_date \o "_" \o birth_time
                     \o "_" \o birth_place
    IN  "horoscope:" \o md5_hexdigest(user_data)

\* The fingerprint of an identity as every caller derives it
KeyOf(id) == _generate_cache_key(id.name, strftime(id.birth_date),
                                 OrEmpty(id.birth_time), OrEmpty(id.birth_place))

Keys == {KeyOf(id) : id \in Identities \cup CollidingIdentities}

\* A key lives until its time to live has run out
Live(key) == store[key] # NoEntry /\ now < store[key].expires

\* redis GET: the value of a live key
redis_get(key) == IF Live(key) THEN store[key].value ELSE Nil

\* A SETEX that keeps the value and loses the time to live
redis_setex_persistent(key, seconds, value) ==
    [store EXCEPT ![key] = [value |-> value, expires |-> now + 1000000]]
\* redis SETEX key seconds value
redis_setex(key, seconds, value) ==
    [store EXCEPT ![key] = [value |-> value, expires |-> now + seconds]]

\* redis DEL keys
redis_delete(keys) ==
    [k \in Keys |-> IF k \in keys THEN NoEntry ELSE store[k]]

\* redis KEYS "horoscope:*"
redis_keys == {k \in Keys : Live(k)}

\* What redis_client.get answers: "ok" (the value of the key, or nothing),
\* "error" (it raises), "undecodable" (bytes json.loads rejects), "foreign"
\* (JSON of another shape, left under the key by another writer)
GetReplies == {"ok", "error", "undecodable", "foreign"}

\* A decoded JSON object without the zodiac, insight and language keys
Foreign == [foreign |-> TRUE]

\* A read that answers only the requests made in the language of the entry
get_cached_response_own_language(user_name, birth_date, birth_time, birth_place, reply) ==
    IF redis_client = None THEN Nil
    ELSE IF reply \in {"error", "undecodable"} THEN Nil
    ELSE IF reply = "foreign" THEN Foreign
    ELSE LET cache_key == _generate_cache_key(user_name, birth_date,
                                              birth_time, birth_place)
             cached_data == redis_get(cache_key)
         IN  IF cached_data # Nil
                /\ (request.language = None
                    \/ cached_data.json.language = lower(request.language))
             THEN cached_data.json ELSE Nil
\* get_cached_response (lines 44-82)
get_cached_response(user_name, birth_date, birth_time, birth_place, reply) ==
    IF redis_client = None THEN Nil
    ELSE IF reply \in {"error", "undecodable"} THEN Nil
    ELSE IF reply = "foreign" THEN Foreign
    ELSE LET cache_key == _generate_cache_key(user_name, birth_date,
                                              birth_time, birth_place)
             cached_data == redis_get(cache_key)
         IN  IF cached_data # Nil THEN cached_data.json ELSE Nil

\* A write-through that reports success and stores nothing
CacheResponseStore_dropped(user_name, birth_date, birth_time, birth_place, resp, store_ok) ==
    store
\* The store after cache_response; the call returns CacheResponseOk
CacheResponseStore(user_name, birth_date, birth_time, birth_place, resp, store_ok) ==
    IF redis_client = None \/ ~store_ok THEN store
    ELSE LET cache_key == _generate_cache_key(user_name, birth_date,
                                              birth_time, birth_place)
             response_with_timestamp ==
                 [zodiac |-> resp.zodiac, insight |-> resp.insight,
                  language |-> resp.language, cached_at |-> now,
                  cache_ttl_minutes |-> cache_ttl_minutes]
         IN  redis_setex(cache_key, cache_ttl, [json |-> response_with_timestamp])

\* A cache_response that reports success without looking for the client
CacheResponseOk_unchecked(store_ok) == store_ok
CacheResponseOk(store_ok) == redis_client # None /\ store_ok

\* An invalidation that deletes every horoscope key
InvalidateStore_all(user_name, birth_date, birth_time, birth_place, store_ok) ==
    IF redis_client = None \/ ~store_ok THEN store
    ELSE redis_delete(Keys)
\* The store after invalidate_cache; the call returns InvalidateOk
InvalidateStore(user_name, birth_date, birth_time, birth_place, store_ok) ==
    IF redis_client = None \/ ~store_ok THEN store
    ELSE redis_delete({_generate_cache_key(user_name, birth_date,
                                           birth_time, birth_place)})

\* An invalidation that reports success whatever the store did
InvalidateOk_always(store_ok) == TRUE
InvalidateOk(store_ok) == redis_client # None /\ store_ok

\* The store after clear_all_cache; the call returns ClearAllOk
ClearAllStore(store_ok) ==
    IF redis_client = None \/ ~store_ok THEN store
    ELSE LET keys == redis_keys
         IN  IF keys # {} THEN redis_delete(keys) ELSE store

\* A clear_all_cache that reports success without looking for the client
ClearAllOk_unchecked(store_ok) == store_ok
ClearAllOk(store_ok) == redis_client # None /\ store_ok

\* get_cache_stats; sample is keys[0], whichever key KEYS answers first
get_cache_stats(store_ok, sample) ==
    IF redis_client = None
    THEN [status |-> "disabled", reason |-> "Redis not configured"]
    ELSE IF ~store_ok THEN [status |-> "error", error |-> "str(e)"]
    ELSE LET keys == redis_keys
             total_keys == Cardinality(keys)
         IN  [status |-> "active",
              total_cached_responses |-> total_keys,
              cache_ttl_minutes |-> cache_ttl_minutes,
              sample_ttl_seconds |-> IF keys # {}
                                     THEN ToString(store[sample].expires - now)
                                     ELSE None]

-----------------------------------------------------------------------------
(* app/services/panchang_service.py *)

\* PanchangService.is_available
is_available == panchang_configured

\* PanchangService.get_panchang_data: no API is implemented, the data is None
get_panchang_data == Nil

-----------------------------------------------------------------------------
(* app/services/chroma_service.py *)

\* categories of generate_horoscope_direct, in order
categories == <<"general", "love", "career", "health", "money">>

Topics == {categories[i] : i \in 1..Len(categories)}

n_results == 2

Item(sign, category, n, distance) ==
    [id |-> sign \o "_" \o category \o "_" \o ToString(n),
     metadata |-> [sign |-> sign, category |-> category],
     distance |-> distance]

\* collection.query(where sign = zodiac): the stored documents of that sign
\* nearest to the query text, by ascending distance (in hundredths)
collection_query(sign, category) ==
    CASE category = "general" -> <<Item(sign, "general", 1, 21), Item(sign, "love", 1, 35),
                                   Item(sign, "general", 2, 40)>>
      [] category = "love"    -> <<Item(sign, "love", 1, 18)>>
      [] category = "career"  -> <<Item(sign, "career", 1, 25), Item(sign, "general", 1, 30)>>
      [] category = "health"  -> <<>>
      [] category = "money"   -> <<Item(sign, "money", 1, 12), Item(sign, "career", 1, 44)>>

Min(a, b) == IF a < b THEN a ELSE b

\* A category query that returns every document the collection found
query_horoscopes_by_category_unlimited(sign, category, n, raises) ==
    IF raises THEN <<>>
    ELSE collection_query(sign, category)
\* query_horoscopes_by_category; raises says whether collection.query raised
query_horoscopes_by_category(sign, category, n, raises) ==
    IF raises THEN <<>>
    ELSE LET results == collection_query(sign, category)
         IN  SubSeq(results, 1, Min(n, Len(results)))

\* query_horoscopes (lines 71-120): up to n documents of the sign, any
\* category, or [] when anything raised
query_horoscopes(sign, n, raises) ==
    IF raises THEN <<>>
    ELSE LET results == collection_query(sign, "general")
         IN  SubSeq(results, 1, Min(n, Len(results)))

-----------------------------------------------------------------------------
(* app/services/gemini_service.py *)

\* What client.generate_content does: raise, or answer with a text
GeminiOutcomes ==
    { [kind |-> "raise", text |-> <<>>],
      [kind |-> "text", text |-> <<>>],
      [kind |-> "text", text |-> <<" ", "\n">>],
      [kind |-> "text", text |-> <<" ", "The stars favour you today.", "\n">>] }

\* _call_gemini: the stripped text, or <<>> for None
_call_gemini(outcome) ==
    IF gemini_client = None THEN <<>>
    ELSE IF outcome.kind = "raise" THEN <<>>
    ELSE IF outcome.text = <<>> THEN <<>>
    ELSE strip(outcome.text)

\* A fallback text that leaves the user out
_generate_fallback_insight_anonymous(user_name, sign) ==
    <<"Your ", sign,
      " energy brings warmth and creativity to everything you do today. ",
      "Trust your intuition and let your natural leadership shine through.">>
\* _generate_fallback_insight (lines 248-250)
_generate_fallback_insight(user_name, sign) ==
    <<"Your ", sign,
      " energy brings warmth and creativity to everything you do today, ",
      user_name,
      ". Trust your intuition and let your natural leadership shine through.">>

\* str.upper() on the category names
upper(c) ==
    CASE c = "general" -> "GENERAL" [] c = "love" -> "LOVE"
      [] c = "career" -> "CAREER" [] c = "health" -> "HEALTH"
      [] c = "money" -> "MONEY"

\* _format_retrieved_horoscopes_by_category (lines 154-185): the items are
\* put into one list per metadata category, the lists in the order in which
\* their category first appears, each list in the order of the input; the
\* block is one section per list, each entry with its relevance score
\* 1 - distance (in hundredths), and a summary line
_format_retrieved_horoscopes_by_category(horoscopes) ==
    LET category(i) == horoscopes[i].metadata.category
        first_seen == SelectSeq([i \in 1..Len(horoscopes) |-> i],
                                LAMBDA i : \A j \in 1..(i - 1) : category(j) # category(i))
        entries(c) == SelectSeq(horoscopes, LAMBDA h : h.metadata.category = c)
    IN  [sections |->
            [g \in 1..Len(first_seen) |->
                LET c == category(first_seen[g])
                IN  [header |-> "=== " \o upper(c) \o " HOROSCOPES ===",
                     entries |-> [k \in 1..Len(entries(c)) |->
                                     [number |-> k,
                                      relevance_score |-> 100 - entries(c)[k].distance,
                                      text |-> "", date |-> ""]]]],
         total_entries |-> Len(horoscopes),
         total_categories |-> Len(first_seen)]

\* _generate_fallback_horoscope (lines 244-246)
_generate_fallback_horoscope(user_name, sign) ==
    <<"Dear ", user_name, ", as a ", sign,
      ", your natural charisma and determination will guide you through today's challenges. ",
      "Trust your instincts and embrace opportunities that come your way. ",
      "Stay positive and focused on your goals.">>

\* GeminiService.generate_horoscope (lines 55-88)
gemini_generate_horoscope(user_name, sign, retrieved_horoscopes, outcome) ==
    LET resp == _call_gemini(outcome)
    IN  IF resp # <<>> THEN resp
        ELSE _generate_fallback_horoscope(user_name, sign)

\* _print_vector_results and _format_retrieved_horoscopes_by_category compute
\* 1 - distance (lines 145, 176): an item whose distance is None (here: an
\* item without the field) makes them raise TypeError
formatting_raises(horoscopes) ==
    \E i \in 1..Len(horoscopes) : "distance" \notin DOMAIN horoscopes[i]

\* A generation whose formatting is outside the try: the exception leaves the
\* function and no text is returned
generate_coherent_horoscope_unguarded(user_name, sign, retrieved_horoscopes, outcome) ==
    IF formatting_raises(retrieved_horoscopes) THEN <<>>
    ELSE LET resp == _call_gemini(outcome)
         IN  IF resp # <<>> THEN resp
             ELSE _generate_fallback_insight(user_name, sign)
\* generate_coherent_horoscope (lines 90-132): everything from the formatting
\* on is inside one try whose handler returns the fallback
generate_coherent_horoscope(user_name, sign, retrieved_horoscopes, outcome) ==
    IF formatting_raises(retrieved_horoscopes)
    THEN _generate_fallback_insight(user_name, sign)
    ELSE LET resp == _call_gemini(outcome)
         IN  IF resp # <<>> THEN resp
             ELSE _generate_fallback_insight(user_name, sign)

-----------------------------------------------------------------------------
(* app/services/translation_service.py *)

\* What the IndicTrans2 model does in the two attempts of translate_text:
\* first: "ok", "empty" (no translation), "blank" (an empty translation),
\* "raise_pre" (raise before inputs is bound), "raise_gen" (raise in generate);
\* second (after "raise_gen"): "ok", "empty", "blank", "raise"
TranslateOutcomes ==
    { [first |-> f, second |-> "ok"] : f \in {"ok", "empty", "blank", "raise_pre"} }
    \cup { [first |-> "raise_gen", second |-> g] : g \in {"ok", "empty", "blank", "raise"} }

\* The model's translation of a text
model_generate(text, tgt_lang) == <<"[" \o tgt_lang \o "]">> \o text

is_language_supported(language_code) ==
    lower(language_code) \in DOMAIN supported_languages

\* A translate_text that hands the English text back when the model fails
translate_text_untranslated(text, target_language, outcome) ==
    IF translation_service # "initialized" THEN <<>>
    ELSE IF text = <<>> \/ strip(text) = <<>> THEN text
    ELSE IF lower(target_language) \notin DOMAIN supported_languages THEN <<>>
    ELSE LET tgt_lang == supported_languages[lower(target_language)]
         IN  IF outcome.first = "ok" THEN model_generate(text, tgt_lang) ELSE text
\* translate_text: the translation, <<>> for None or an empty string
translate_text(text, target_language, outcome) ==
    IF translation_service # "initialized" THEN <<>>
    ELSE IF text = <<>> \/ strip(text) = <<>> THEN text
    ELSE IF lower(target_language) \notin DOMAIN supported_languages THEN <<>>
    ELSE LET tgt_lang == supported_languages[lower(target_language)]
         IN  CASE outcome.first = "ok" -> model_generate(text, tgt_lang)
               [] outcome.first \in {"empty", "blank", "raise_pre"} -> <<>>
               [] outcome.first = "raise_gen" ->
                    IF outcome.second = "ok"
                    THEN model_generate(text, tgt_lang)
                    ELSE <<>>

\* A translate_horoscope_response that relabels the response whatever
\* translate_text returned
translate_horoscope_response_relabel(resp, target_language, outcome) ==
    IF ~is_language_supported(target_language) THEN Nil
    ELSE LET original_insight == resp.insight
         IN  IF original_insight = <<>> THEN Nil
             ELSE LET translated_insight ==
                          translate_text(original_insight, target_language, outcome)
                  IN  [zodiac |-> resp.zodiac,
                       insight |-> IF translated_insight = <<>>
                                   THEN original_insight ELSE translated_insight,
                       language |-> target_language]
\* translate_horoscope_response: the translated dict, or Nil for None
translate_horoscope_response(resp, target_language, outcome) ==
    IF ~is_language_supported(target_language) THEN Nil
    ELSE LET original_insight == resp.insight
         IN  IF original_insight = <<>> THEN Nil
             ELSE LET translated_insight ==
                          translate_text(original_insight, target_language, outcome)
                  IN  IF translated_insight = <<>> THEN Nil
                      ELSE [zodiac |-> resp.zodiac,
                            insight |-> translated_insight,
                            language |-> target_language]

-----------------------------------------------------------------------------
(* app/horoscope_services.py, app/api.py *)

\* A vector store with the "horoscopes" collection and documents in it
Loaded == [collections |-> {"horoscopes"}, documents |-> 2]

\* A call that has not been made yet
NotStarted == [pc |-> "Idle", request |-> NoCall, cached_response |-> Nil,
               response |-> NoResponse, cache_success |-> FALSE]

\* No user in the table, no entry in the store, no request in hand
Fresh ==
    /\ users = <<>>
    /\ calls = [i \in 1..MaxRequests |-> NotStarted]
    /\ vector_store = Loaded
    /\ store = [k \in Keys |-> NoEntry]
    /\ now = 0
    /\ ticks = 0
    /\ nreq = 0
    /\ pc = "Idle"
    /\ request = NoCall
    /\ read_ok = FALSE
    /\ cached_response = Nil
    /\ zodiac = None
    /\ failed_topics = {}
    /\ all_horoscopes = <<>>
    /\ gemini_outcome = NoOutcome
    /\ insight = <<>>
    /\ translate_outcome = NoOutcome
    /\ response = NoResponse
    /\ cache_success = FALSE
    /\ trace = <<>>

\* The service after startup_event, in any deployment
Init ==
    /\ redis_client \in {"client", None}
    /\ chroma_service \in {"chroma", None}
    /\ gemini_client \in {"model", None}
    /\ translation_service \in {None, "initialized", "uninitialized"}
    /\ panchang_configured \in BOOLEAN
    /\ Fresh
    /\ first = NotFollowed
    /\ cache_call = NoCall
    /\ clearing = NoCall

\* The same service in the deployments that can answer a request, the first
\* call that returns a result being followed
InitPair ==
    /\ redis_client \in {"client", None}
    /\ chroma_service = "chroma"
    /\ gemini_client = "model"
    /\ translation_service \in {None, "initialized"}
    /\ panchang_configured = FALSE
    /\ Fresh
    /\ first = NoCall
    /\ cache_call = NoCall
    /\ clearing = NoCall

\* The remembered call, its entry gone from under one of the keys
Touched(keys) ==
    IF first \notin {NoCall, NotFollowed} /\ KeyOf(first.identity) \in keys
    THEN [first EXCEPT !.intact = FALSE]
    ELSE first

\* POST /horoscope (api.py lines 201-212): generate_horoscope_direct is entered
StartRequest(id, lang) ==
    /\ pc = "Idle"
    /\ nreq < MaxRequests
    /\ nreq' = nreq + 1
    /\ request' = [identity |-> id, language |-> lang]
    /\ pc' = "CacheCheck"
    /\ UNCHANGED <<config_vars, users, calls, vector_store, cache_call, clearing, store, now, ticks, read_ok,
                   cached_response, zodiac, failed_topics, all_horoscopes,
                   gemini_outcome, insight, translate_outcome, response,
                   cache_success, trace, first>>

\* A cache read whose hit does not return
CacheCheck_fallthrough ==
    /\ pc = "CacheCheck"
    /\ \E reply \in GetReplies :
        LET id == request.identity
            got == get_cached_response(id.name, strftime(id.birth_date),
                                       OrEmpty(id.birth_time),
                                       OrEmpty(id.birth_place), reply)
        IN  /\ cached_response' = got
            /\ read_ok' = (redis_client # None /\ reply = "ok")
            /\ trace' = Append(trace, "cache_read")
            /\ response' = IF got \notin {Nil, Foreign}
                           THEN [zodiac |-> got.zodiac, insight |-> got.insight,
                                 language |-> got.language]
                           ELSE response
            /\ pc' = IF got = Foreign THEN "Error" ELSE "Classify"
    /\ UNCHANGED <<config_vars, users, calls, vector_store, cache_call, clearing, store, now, ticks, nreq, request, zodiac,
                   failed_topics, all_horoscopes, gemini_outcome, insight,
                   translate_outcome, cache_success, first>>
\* A cache read whose hit starts the entry's time to live afresh
CacheCheck_sliding ==
    /\ pc = "CacheCheck"
    /\ \E reply \in GetReplies :
        LET id == request.identity
            got == get_cached_response(id.name, strftime(id.birth_date),
                                       OrEmpty(id.birth_time),
                                       OrEmpty(id.birth_place), reply)
        IN  /\ cached_response' = got
            /\ read_ok' = (redis_client # None /\ reply = "ok")
            /\ trace' = Append(trace, "cache_read")
            /\ IF got = Foreign
               THEN /\ response' = response
                    /\ pc' = "Error"
                    /\ store' = store
               ELSE IF got # Nil
               THEN /\ response' = [zodiac |-> got.zodiac, insight |-> got.insight,
                                    language |-> got.language]
                    /\ pc' = "Done"
                    /\ store' = [store EXCEPT ![KeyOf(id)].expires = now + cache_ttl]
               ELSE /\ response' = response
                    /\ pc' = "Classify"
                    /\ store' = store
    /\ UNCHANGED <<config_vars, users, calls, vector_store, cache_call, clearing, now, ticks, nreq, request, zodiac,
                   failed_topics, all_horoscopes, gemini_outcome, insight,
                   translate_outcome, cache_success, first>>
\* Step 1 (lines 110-132): the cache read; a hit returns at once, and a
\* truthy reply without the three keys raises KeyError at line 129
CacheCheck ==
    /\ pc = "CacheCheck"
    /\ \E reply \in GetReplies :
        LET id == request.identity
            birth_date_str == strftime(id.birth_date)
            birth_time_str == OrEmpty(id.birth_time)
            birth_place_str == OrEmpty(id.birth_place)
            got == get_cached_response(id.name, birth_date_str, birth_time_str,
                                       birth_place_str, reply)
        IN  /\ cached_response' = got
            /\ read_ok' = (redis_client # None /\ reply = "ok")
            /\ trace' = Append(trace, "cache_read")
            /\ IF got = Foreign
               THEN /\ response' = response
                    /\ pc' = "Error"
               ELSE IF got # Nil
               THEN /\ response' = [zodiac |-> got.zodiac, insight |-> got.insight,
                                    language |-> got.language]
                    /\ pc' = "Done"
               ELSE /\ response' = response
                    /\ pc' = "Classify"
    /\ UNCHANGED <<config_vars, users, calls, vector_store, cache_call, clearing, store, now, ticks, nreq, request, zodiac,
                   failed_topics, all_horoscopes, gemini_outcome, insight,
                   translate_outcome, cache_success, first>>

\* A classification that hands over to generation, retrieval left out
Classify_then_generate ==
    /\ pc = "Classify"
    /\ zodiac' = calculate_zodiac(request.identity.birth_date)
    /\ trace' = Append(trace, "classify")
    /\ pc' = "Synthesize"
    /\ read_ok' = FALSE
    /\ UNCHANGED <<config_vars, users, calls, vector_store, cache_call, clearing, store, now, ticks, nreq, request,
                   cached_response, failed_topics, all_horoscopes,
                   gemini_outcome, insight, translate_outcome, response,
                   cache_success, first>>
\* Step 2 (line 137): calculate_zodiac
Classify ==
    /\ pc = "Classify"
    /\ zodiac' = calculate_zodiac(request.identity.birth_date)
    /\ trace' = Append(trace, "classify")
    /\ pc' = "Panchang"
    /\ read_ok' = FALSE
    /\ UNCHANGED <<config_vars, users, calls, vector_store, cache_call, clearing, store, now, ticks, nreq, request,
                   cached_response, failed_topics, all_horoscopes,
                   gemini_outcome, insight, translate_outcome, response,
                   cache_success, first>>

\* Step 3 (lines 140-165): Panchang data, fetched when the service is
\* available; panchang_data and panchang_dict are None either way
Panchang ==
    /\ pc = "Panchang"
    /\ trace' = IF is_available THEN Append(trace, "panchang") ELSE trace
    /\ pc' = "Retrieve"
    /\ UNCHANGED <<config_vars, users, calls, vector_store, cache_call, clearing, store, now, ticks, nreq, request, read_ok,
                   cached_response, zodiac, failed_topics, all_horoscopes,
                   gemini_outcome, insight, translate_outcome, response,
                   cache_success, first>>

RECURSIVE Concat(_)
Concat(lists) == IF lists = <<>> THEN <<>> ELSE Head(lists) \o Concat(Tail(lists))

\* A loop that stops at the first topic whose query raises
RetrieveAll_abort(sign, raising) ==
    IF raising # {} THEN <<>>
    ELSE Concat([i \in 1..Len(categories) |->
                    query_horoscopes_by_category(sign, categories[i], n_results, FALSE)])
\* The loop of lines 177-187 over categories, raising being the topics whose
\* collection.query raises
RetrieveAll(sign, raising) ==
    Concat([i \in 1..Len(categories) |->
               query_horoscopes_by_category(sign, categories[i], n_results,
                                            categories[i] \in raising)])

\* The topics whose collection.query raises in one call: none, any one, or
\* every one
FailurePatterns == {{}} \cup {{c} : c \in Topics} \cup {Topics}

\* Step 4 (lines 167-189): no ChromaDB service raises; else one query a topic
Retrieve ==
    /\ pc = "Retrieve"
    /\ IF chroma_service = None
       THEN /\ pc' = "Error"
            /\ UNCHANGED <<failed_topics, all_horoscopes, trace>>
       ELSE \E raising \in FailurePatterns :
               /\ failed_topics' = raising
               /\ all_horoscopes' = RetrieveAll(zodiac, raising)
               /\ trace' = trace \o [i \in 1..Len(categories) |-> "query"]
               /\ pc' = "Synthesize"
    /\ UNCHANGED <<config_vars, users, calls, vector_store, cache_call, clearing, store, now, ticks, nreq, request, read_ok,
                   cached_response, zodiac, gemini_outcome, insight,
                   translate_outcome, response, cache_success, first>>

\* Step 5 (lines 191-198): generate_coherent_horoscope, the last use of the
\* retrieved evidence
Synthesize ==
    /\ pc = "Synthesize"
    /\ \E outcome \in GeminiOutcomes :
        /\ gemini_outcome' = outcome
        /\ insight' = generate_coherent_horoscope(request.identity.name, zodiac,
                                                  all_horoscopes, outcome)
    /\ trace' = Append(trace, "generate")
    /\ pc' = "Translate"
    /\ failed_topics' = {}
    /\ all_horoscopes' = <<>>
    /\ UNCHANGED <<config_vars, users, calls, vector_store, cache_call, clearing, store, now, ticks, nreq, request, read_ok,
                   cached_response, zodiac, translate_outcome, response,
                   cache_success, first>>

\* line 211: request.language.lower() if request.language else "en"
target_language(req) ==
    IF req.language # None THEN lower(req.language) ELSE "en"

\* A step that labels the response with the language asked for although no
\* translator is there
TranslationStep_mislabel(english, target, outcome) ==
    IF target # "en" /\ translation_service # None
    THEN LET translated_response ==
                 translate_horoscope_response(english, target, outcome)
         IN  IF translated_response # Nil THEN translated_response ELSE english
    ELSE [english EXCEPT !.language = target]
\* Step 6.5 (lines 210-238): the response after the translation step
TranslationStep(english, target, outcome) ==
    IF target # "en" /\ translation_service # None
    THEN LET translated_response ==
                 translate_horoscope_response(english, target, outcome)
         IN  IF translated_response # Nil THEN translated_response ELSE english
    ELSE english

\* Steps 6 and 6.5 (lines 202-238): the response and its translation
Translate ==
    /\ pc = "Translate"
    /\ LET english == [zodiac |-> capitalize(zodiac), insight |-> insight,
                       language |-> "en"]
           target == target_language(request)
       IN  IF target # "en" /\ translation_service # None
           THEN \E outcome \in TranslateOutcomes :
                   /\ translate_outcome' = outcome
                   /\ response' = TranslationStep(english, target, outcome)
                   /\ trace' = Append(trace, "translate")
           ELSE /\ translate_outcome' = NoOutcome
                /\ response' = TranslationStep(english, target, NoOutcome)
                /\ trace' = trace
    /\ pc' = "CacheWrite"
    /\ gemini_outcome' = NoOutcome
    /\ UNCHANGED <<config_vars, users, calls, vector_store, cache_call, clearing, store, now, ticks, nreq, request, read_ok,
                   cached_response, zodiac, failed_topics, all_horoscopes, insight,
                   cache_success, first>>

\* the write step as it would be if a failed write were fatal to the request
CacheWrite_fatal ==
    /\ pc = "CacheWrite"
    /\ \E store_ok \in BOOLEAN :
        LET id == request.identity
        IN  /\ store' = CacheResponseStore(id.name, strftime(id.birth_date),
                                           OrEmpty(id.birth_time),
                                           OrEmpty(id.birth_place), response, store_ok)
            /\ cache_success' = CacheResponseOk(store_ok)
            /\ first' = Touched(IF CacheResponseOk(store_ok)
                                THEN {KeyOf(id)} ELSE {})
            /\ pc' = IF CacheResponseOk(store_ok) THEN "Done" ELSE "Error"
    /\ trace' = Append(trace, "cache_write")
    /\ translate_outcome' = NoOutcome
    /\ UNCHANGED <<config_vars, users, calls, vector_store, cache_call, clearing, now, ticks, nreq, request, read_ok,
                   cached_response, zodiac, failed_topics, all_horoscopes,
                   gemini_outcome, insight, response>>

\* Step 7 (lines 240-256): the write-through, and the return
CacheWrite ==
    /\ pc = "CacheWrite"
    /\ \E store_ok \in BOOLEAN :
        LET id == request.identity
        IN  /\ store' = CacheResponseStore(id.name, strftime(id.birth_date),
                                           OrEmpty(id.birth_time),
                                           OrEmpty(id.birth_place), response, store_ok)
            /\ cache_success' = CacheResponseOk(store_ok)
            /\ first' = Touched(IF CacheResponseOk(store_ok)
                                THEN {KeyOf(id)} ELSE {})
    /\ trace' = Append(trace, "cache_write")
    /\ pc' = "Done"
    /\ translate_outcome' = NoOutcome
    /\ UNCHANGED <<config_vars, users, calls, vector_store, cache_call, clearing, now, ticks, nreq, request, read_ok,
                   cached_response, zodiac, failed_topics, all_horoscopes,
                   gemini_outcome, insight, response>>

\* api.py lines 212-222: the endpoint answers with the response, or with
\* HTTP 500 after a raise; the call and its locals are gone
Respond ==
    /\ pc \in {"Done", "Error"}
    /\ first' = IF first = NoCall /\ pc = "Done"
                THEN [identity |-> request.identity, at |-> now,
                      response |-> response,
                      invoked |-> Contains(trace, "generate"),
                      intact |-> cache_success]
                ELSE first
    /\ pc' = "Idle"
    /\ request' = NoCall
    /\ read_ok' = FALSE
    /\ cached_response' = Nil
    /\ zodiac' = None
    /\ failed_topics' = {}
    /\ all_horoscopes' = <<>>
    /\ gemini_outcome' = NoOutcome
    /\ insight' = <<>>
    /\ translate_outcome' = NoOutcome
    /\ response' = NoResponse
    /\ cache_success' = FALSE
    /\ trace' = <<>>
    /\ UNCHANGED <<config_vars, users, calls, vector_store, cache_call, clearing, store, now, ticks, nreq>>

\* DELETE /cache/invalidate (api.py lines 272-292)
Invalidate(id) ==
    /\ pc = "Idle"
    /\ \E store_ok \in BOOLEAN :
        /\ store' = InvalidateStore(id.name, strftime(id.birth_date),
                                    OrEmpty(id.birth_time), OrEmpty(id.birth_place),
                                    store_ok)
        /\ first' = Touched(IF InvalidateOk(store_ok) THEN {KeyOf(id)} ELSE {})
    /\ UNCHANGED <<config_vars, users, calls, vector_store, cache_call, clearing, now, ticks, nreq, pc, call_vars>>

\* DELETE /cache/clear (api.py lines 259-269)
ClearAll ==
    /\ pc = "Idle"
    /\ \E store_ok \in BOOLEAN :
        /\ store' = ClearAllStore(store_ok)
        /\ first' = Touched(IF ClearAllOk(store_ok) THEN redis_keys ELSE {})
    /\ UNCHANGED <<config_vars, users, calls, vector_store, cache_call, clearing, now, ticks, nreq, pc, call_vars>>

\* Time passes between two requests (a handler is a coroutine that never
\* suspends), and Redis drops the keys whose time to live has run out
TickSteps == {1, cache_ttl_minutes * SecondsPerMinute - 1}

Tick ==
    /\ pc = "Idle"
    /\ ticks < MaxTicks
    /\ ticks' = ticks + 1
    /\ \E d \in TickSteps : now' = now + d
    /\ store' = [k \in Keys |->
                    IF store[k] # NoEntry /\ store[k].expires <= now'
                    THEN NoEntry ELSE store[k]]
    /\ UNCHANGED <<config_vars, users, calls, vector_store, cache_call, clearing, nreq, pc, call_vars, first>>

\* The service, its requests one after the other
Next ==
    \/ \E id \in Identities, lang \in Languages : StartRequest(id, lang)
    \/ CacheCheck
    \/ Classify
    \/ Panchang
    \/ Retrieve
    \/ Synthesize
    \/ Translate
    \/ CacheWrite
    \/ Respond
    \/ \E id \in Identities : Invalidate(id)
    \/ ClearAll
    \/ Tick

Spec == Init /\ [][Next]_vars

SpecPair == InitPair /\ [][Next]_vars

-----------------------------------------------------------------------------
(* CacheService called by the clients of one Redis store *)

\* Responses the callers hand to cache_response
CachedResponses ==
    { [zodiac |-> "Leo", insight |-> <<"The stars favour you today.">>,
       language |-> "en"],
      [zodiac |-> "Capricorn",
       insight |-> <<"[hin_Deva]", "The stars favour you today.">>,
       language |-> "hi"] }

Reply(store_ok) == IF store_ok THEN "ok" ELSE "error"

InitCache ==
    /\ redis_client \in {"client", None}
    /\ chroma_service = "chroma"
    /\ gemini_client = "model"
    /\ translation_service = None
    /\ panchang_configured = FALSE
    /\ Fresh
    /\ first = NotFollowed
    /\ cache_call = NoCall
    /\ clearing = NoCall

CallGetCachedResponse(id, reply) ==
    /\ cache_call' = [op |-> "get_cached_response", identity |-> id, reply |-> reply,
                      result |-> get_cached_response(id.name, strftime(id.birth_date),
                                                     OrEmpty(id.birth_time),
                                                     OrEmpty(id.birth_place), reply)]
    /\ UNCHANGED <<config_vars, users, calls, vector_store, store, now, ticks, nreq, pc, call_vars, first, clearing>>

CallCacheResponse(id, resp, store_ok) ==
    /\ store' = CacheResponseStore(id.name, strftime(id.birth_date),
                                   OrEmpty(id.birth_time), OrEmpty(id.birth_place),
                                   resp, store_ok)
    /\ cache_call' = [op |-> "cache_response", identity |-> id,
                      reply |-> Reply(store_ok), result |-> CacheResponseOk(store_ok)]
    /\ UNCHANGED <<config_vars, users, calls, vector_store, now, ticks, nreq, pc, call_vars, first, clearing>>

CallInvalidateCache(id, store_ok) ==
    /\ store' = InvalidateStore(id.name, strftime(id.birth_date),
                                OrEmpty(id.birth_time), OrEmpty(id.birth_place),
                                store_ok)
    /\ cache_call' = [op |-> "invalidate_cache", identity |-> id,
                      reply |-> Reply(store_ok), result |-> InvalidateOk(store_ok)]
    /\ UNCHANGED <<config_vars, users, calls, vector_store, now, ticks, nreq, pc, call_vars, first, clearing>>

CallGetCacheStats(store_ok) ==
    /\ \E sample \in (IF redis_keys = {} THEN Keys ELSE redis_keys) :
           cache_call' = [op |-> "get_cache_stats", identity |-> Nil,
                          reply |-> Reply(store_ok),
                          result |-> get_cache_stats(store_ok, sample)]
    /\ UNCHANGED <<config_vars, users, calls, vector_store, store, now, ticks, nreq, pc, call_vars, first, clearing>>

\* clear_all_cache up to its KEYS command (lines 185-190, 193-197): it
\* returns at once without a client, when KEYS raises and when there is no key
ClearAllKeys(store_ok) ==
    /\ clearing = NoCall
    /\ IF redis_client # None /\ store_ok /\ redis_keys # {}
       THEN /\ clearing' = [keys |-> redis_keys]
            /\ cache_call' = cache_call
       ELSE /\ clearing' = NoCall
            /\ cache_call' = [op |-> "clear_all_cache", identity |-> Nil,
                              reply |-> Reply(store_ok),
                              result |-> ClearAllOk(store_ok)]
    /\ UNCHANGED <<config_vars, users, calls, vector_store, store, now, ticks, nreq, pc, call_vars, first>>

\* clear_all_cache from its DEL command on (lines 191-197)
ClearAllDelete(store_ok) ==
    /\ clearing # NoCall
    /\ store' = IF store_ok THEN redis_delete(clearing.keys) ELSE store
    /\ cache_call' = [op |-> "clear_all_cache", identity |-> Nil,
                      reply |-> Reply(store_ok), result |-> store_ok]
    /\ clearing' = NoCall
    /\ UNCHANGED <<config_vars, users, calls, vector_store, now, ticks, nreq, pc, call_vars, first>>

NextCache ==
    \/ \E id \in Identities, reply \in GetReplies : CallGetCachedResponse(id, reply)
    \/ \E id \in Identities, resp \in CachedResponses, store_ok \in BOOLEAN :
           CallCacheResponse(id, resp, store_ok)
    \/ \E id \in Identities, store_ok \in BOOLEAN : CallInvalidateCache(id, store_ok)
    \/ \E store_ok \in BOOLEAN : CallGetCacheStats(store_ok)
    \/ \E store_ok \in BOOLEAN : ClearAllKeys(store_ok)
    \/ \E store_ok \in BOOLEAN : ClearAllDelete(store_ok)
    \/ Tick

SpecCache == InitCache /\ [][NextCache]_vars

-----------------------------------------------------------------------------
(* calculate_zodiac over the calendar *)

\* The days of a month in a leap year: the (month, day) pairs a date can hold
DaysIn(month) ==
    IF month = 2 THEN 29 ELSE IF month \in {4, 6, 9, 11} THEN 30 ELSE 31

\* Every (month, day), February 29 included, and the dates of
\* tests/test_setup.py
BirthDates ==
    {Date(2000, m, d) : <<m, d>> \in {md \in (1..12) \X (1..31) : md[2] <= DaysIn(md[1])}}
    \cup {Date(1995, 8, 15), Date(1990, 1, 1), Date(1985, 6, 21), Date(2000, 12, 25)}

\* A request with any birth date has missed the cache, which is disabled
InitZodiac ==
    /\ redis_client = None
    /\ chroma_service = "chroma"
    /\ gemini_client = "model"
    /\ translation_service = None
    /\ panchang_configured = FALSE
    /\ users = <<>>
    /\ calls = [i \in 1..MaxRequests |-> NotStarted]
    /\ vector_store = Loaded
    /\ store = [k \in Keys |-> NoEntry]
    /\ now = 0
    /\ ticks = 0
    /\ nreq = 1
    /\ pc = "Classify"
    /\ \E d \in BirthDates :
           request = [identity |-> [name |-> "Priya", birth_date |-> d,
                                    birth_time |-> None, birth_place |-> None],
                      language |-> None]
    /\ read_ok = FALSE
    /\ cached_response = Nil
    /\ zodiac = None
    /\ failed_topics = {}
    /\ all_horoscopes = <<>>
    /\ gemini_outcome = NoOutcome
    /\ insight = <<>>
    /\ translate_outcome = NoOutcome
    /\ response = NoResponse
    /\ cache_success = FALSE
    /\ trace = <<"cache_read">>
    /\ first = NotFollowed
    /\ cache_call = NoCall
    /\ clearing = NoCall

NextZodiac == Classify

SpecZodiac == InitZodiac /\ [][NextZodiac]_vars

-----------------------------------------------------------------------------
(* _generate_cache_key over identities that differ field by field *)

\* Identities built from three names, three birth dates, and birth times and
\* places that are absent, empty or free text, which may hold an underscore
KeyIdentities ==
    [name : {"Priya", "Asha", "Priya K"},
     birth_date : {Date(1995, 8, 20), Date(1990, 1, 1), Date(1995, 8, 2)},
     birth_time : {None, "", "14:30", "02:30", "14:30_New"},
     birth_place : {None, "", "Mumbai, India", "Pune", "New_Delhi", "Delhi"}]

\* The four strings the callers pass for an identity (horoscope_services.py
\* lines 111-113)
KeyComponents(id) ==
    <<id.name, strftime(id.birth_date), OrEmpty(id.birth_time),
      OrEmpty(id.birth_place)>>

\* A caller derives the key of an identity
CallGenerateCacheKey(id) ==
    /\ cache_call' = [op |-> "_generate_cache_key", identity |-> id,
                      reply |-> "ok", result |-> KeyOf(id)]
    /\ UNCHANGED <<config_vars, users, calls, vector_store, store, now, ticks, nreq, pc, call_vars, first, clearing>>

NextKey == \E id \in KeyIdentities : CallGenerateCacheKey(id)

SpecKey == InitCache /\ [][NextKey]_vars

-----------------------------------------------------------------------------
(* HoroscopeService.generate_horoscope: the horoscope of a stored user *)

\* The service after startup, the users table empty
InitUser ==
    /\ redis_client = None
    /\ chroma_service \in {"chroma", None}
    /\ gemini_client \in {"model", None}
    /\ translation_service = None
    /\ panchang_configured \in BOOLEAN
    /\ Fresh
    /\ first = NotFollowed
    /\ cache_call = NoCall
    /\ clearing = NoCall

\* POST /users (api.py lines 121-137), UserService.create_user (lines
\* 277-300): the row gets the next id and the zodiac of its birth date
CreateUser(id) ==
    /\ pc = "Idle"
    /\ Len(users) < MaxUsers
    /\ users' = Append(users, [name |-> id.name, birth_date |-> id.birth_date,
                               birth_time |-> id.birth_time,
                               birth_place |-> id.birth_place,
                               zodiac |-> calculate_zodiac(id.birth_date)])
    /\ UNCHANGED <<config_vars, calls, vector_store, store, now, ticks, nreq, pc, call_vars, first,
                   cache_call, clearing>>

\* What date.today() may answer
Today == {Date(2026, 11, 1), Date(2026, 11, 2)}

\* POST /horoscopes and GET /horoscopes/{user_id} (api.py lines 158-198):
\* generate_horoscope is entered; lines 39-40 default query_date to today
StartUserRequest(user_id, query_date) ==
    /\ pc = "Idle"
    /\ nreq < MaxRequests
    /\ nreq' = nreq + 1
    /\ \E today \in Today :
           request' = [user_id |-> user_id,
                       query_date |-> IF query_date = Nil THEN today ELSE query_date,
                       user |-> Nil]
    /\ pc' = "UserLookup"
    /\ UNCHANGED <<config_vars, users, calls, vector_store, cache_call, clearing, store, now, ticks, read_ok,
                   cached_response, zodiac, failed_topics, all_horoscopes,
                   gemini_outcome, insight, translate_outcome, response,
                   cache_success, trace, first>>

\* The answer of the endpoint to an exception (api.py lines 173-178)
NotFound(user_id) ==
    [status |-> 404, detail |-> "User with ID " \o ToString(user_id) \o " not found"]

InternalError(stage) == [status |-> 500, raised_at |-> stage]

\* A lookup that lets a request without a user go on
UserLookup_unchecked ==
    /\ pc = "UserLookup"
    /\ \E db_ok \in BOOLEAN :
        IF ~db_ok
        THEN /\ pc' = "Error"
             /\ response' = InternalError("user_lookup")
             /\ request' = request
        ELSE /\ pc' = "UserPanchang"
             /\ response' = response
             /\ request' = [request EXCEPT !.user =
                                IF request.user_id \in 1..Len(users)
                                THEN users[request.user_id] ELSE Nil]
    /\ trace' = Append(trace, "user_lookup")
    /\ UNCHANGED <<config_vars, users, calls, vector_store, cache_call, clearing, store, now, ticks, nreq,
                   read_ok, cached_response, zodiac, failed_topics, all_horoscopes,
                   gemini_outcome, insight, translate_outcome, cache_success, first>>

\* Step 1 (lines 42-45): the row of the user, ValueError when there is none;
\* the query itself may raise
UserLookup ==
    /\ pc = "UserLookup"
    /\ \E db_ok \in BOOLEAN :
        IF ~db_ok
        THEN /\ pc' = "Error"
             /\ response' = InternalError("user_lookup")
             /\ request' = request
        ELSE IF request.user_id \notin 1..Len(users)
        THEN /\ pc' = "NotFound"
             /\ response' = NotFound(request.user_id)
             /\ request' = request
        ELSE /\ pc' = "UserPanchang"
             /\ response' = response
             /\ request' = [request EXCEPT !.user = users[request.user_id]]
    /\ trace' = Append(trace, "user_lookup")
    /\ UNCHANGED <<config_vars, users, calls, vector_store, cache_call, clearing, store, now, ticks, nreq,
                   read_ok, cached_response, zodiac, failed_topics, all_horoscopes,
                   gemini_outcome, insight, translate_outcome, cache_success, first>>

\* Step 2 (lines 47-53): Panchang data, fetched when the service is available
UserPanchang ==
    /\ pc = "UserPanchang"
    /\ trace' = IF is_available THEN Append(trace, "panchang") ELSE trace
    /\ pc' = "UserRetrieve"
    /\ UNCHANGED <<config_vars, users, calls, vector_store, cache_call, clearing, store, now, ticks, nreq,
                   request, read_ok, cached_response, zodiac, failed_topics,
                   all_horoscopes, gemini_outcome, insight, translate_outcome,
                   response, cache_success, first>>

\* Step 3 (lines 55-70): one query for five documents of the user's sign; a
\* chroma_service that is None raises AttributeError
UserRetrieve ==
    /\ pc = "UserRetrieve"
    /\ IF chroma_service = None
       THEN /\ pc' = "Error"
            /\ response' = InternalError("query")
            /\ UNCHANGED <<all_horoscopes, trace>>
       ELSE /\ \E raises \in BOOLEAN :
                   all_horoscopes' = query_horoscopes(request.user.zodiac, 5, raises)
            /\ trace' = Append(trace, "query")
            /\ pc' = "UserGenerate"
            /\ response' = response
    /\ UNCHANGED <<config_vars, users, calls, vector_store, cache_call, clearing, store, now, ticks, nreq,
                   request, read_ok, cached_response, zodiac, failed_topics,
                   gemini_outcome, insight, translate_outcome, cache_success, first>>

\* Steps 4 and 5 (lines 72-88): the message, and the HoroscopeResponse
UserGenerate ==
    /\ pc = "UserGenerate"
    /\ \E outcome \in GeminiOutcomes :
        /\ insight' = gemini_generate_horoscope(request.user.name, request.user.zodiac,
                                                all_horoscopes, outcome)
        /\ response' = [name |-> request.user.name, zodiac |-> request.user.zodiac,
                        date |-> strftime(request.query_date),
                        panchang_used |-> FALSE, panchang_data |-> None,
                        message |-> insight']
    /\ trace' = Append(trace, "generate")
    /\ pc' = "Done"
    /\ UNCHANGED <<config_vars, users, calls, vector_store, cache_call, clearing, store, now, ticks, nreq,
                   request, read_ok, cached_response, zodiac, failed_topics,
                   all_horoscopes, gemini_outcome, translate_outcome,
                   cache_success, first>>

\* api.py lines 171-178: the endpoint answers with the horoscope, with HTTP
\* 404 after ValueError, with HTTP 500 after any other exception
UserRespond ==
    /\ pc \in {"Done", "NotFound", "Error"}
    /\ pc' = "Idle"
    /\ request' = NoCall
    /\ all_horoscopes' = <<>>
    /\ insight' = <<>>
    /\ response' = NoResponse
    /\ trace' = <<>>
    /\ UNCHANGED <<config_vars, users, calls, vector_store, cache_call, clearing, store, now, ticks, nreq,
                   read_ok, cached_response, zodiac, failed_topics, gemini_outcome,
                   translate_outcome, cache_success, first>>

\* The date of a request: absent, or given
QueryDates == {Nil, Date(2026, 1, 1)}

NextUser ==
    \/ \E id \in Identities : CreateUser(id)
    \/ \E user_id \in 1..(MaxUsers + 1), query_date \in QueryDates :
           StartUserRequest(user_id, query_date)
    \/ UserLookup
    \/ UserPanchang
    \/ UserRetrieve
    \/ UserGenerate
    \/ UserRespond

SpecUser == InitUser /\ [][NextUser]_vars

-----------------------------------------------------------------------------
(* GeminiService.generate_coherent_horoscope called with any item list *)

\* Item lists: none, the results of queries, and lists holding an item whose
\* distance is None
ItemLists ==
    { <<>>,
      <<Item("leo", "general", 1, 21)>>,
      <<Item("leo", "general", 1, 21), Item("leo", "love", 1, 35)>>,
      <<Item("leo", "love", 1, 35), Item("leo", "love", 1, 18)>>,
      <<Item("capricorn", "money", 1, 12), Item("capricorn", "career", 1, 44)>>,
      <<[id |-> "leo_general_1", metadata |-> [sign |-> "leo", category |-> "general"]]>>,
      <<Item("leo", "general", 1, 21),
        [id |-> "leo_love_1", metadata |-> [sign |-> "leo", category |-> "love"]]>>,
      <<[id |-> "capricorn_health_1",
         metadata |-> [sign |-> "capricorn", category |-> "health"]],
        Item("capricorn", "money", 1, 12)>> }

\* The service after startup, with or without a Gemini client
InitSynthesis ==
    /\ redis_client = None
    /\ chroma_service = "chroma"
    /\ gemini_client \in {"model", None}
    /\ translation_service = None
    /\ panchang_configured = FALSE
    /\ Fresh
    /\ first = NotFollowed
    /\ cache_call = NoCall
    /\ clearing = NoCall

\* The client.generate_content calls of one generate_coherent_horoscope:
\* _call_gemini is reached when the formatting went through (line 120) and
\* calls the client once where there is one (lines 36-42); whatever the
\* call did, _call_gemini returns (lines 44-53)
generate_content_calls(horoscopes) ==
    IF formatting_raises(horoscopes) \/ gemini_client = None
    THEN <<>>
    ELSE <<"generate_content">>

\* generate_coherent_horoscope is called for an identity with an item list;
\* the arguments, what the client did, the client calls made and the text
\* returned are kept
CallGenerateCoherentHoroscope(id, items, outcome) ==
    /\ request' = [identity |-> id, language |-> None]
    /\ zodiac' = calculate_zodiac(id.birth_date)
    /\ all_horoscopes' = items
    /\ gemini_outcome' = outcome
    /\ insight' = generate_coherent_horoscope(id.name, calculate_zodiac(id.birth_date),
                                              items, outcome)
    /\ trace' = generate_content_calls(items)
    /\ UNCHANGED <<config_vars, users, calls, vector_store, cache_call, clearing, store, now, ticks, nreq, pc,
                   read_ok, cached_response, failed_topics, translate_outcome,
                   response, cache_success, first>>

NextSynthesis ==
    \E id \in Identities, items \in ItemLists, outcome \in GeminiOutcomes :
        CallGenerateCoherentHoroscope(id, items, outcome)

SpecSynthesis == InitSynthesis /\ [][NextSynthesis]_vars

-----------------------------------------------------------------------------
(* generate_horoscope_direct for identities with the same joined details *)

\* The service after startup in a deployment that can answer and cache
InitCollide ==
    /\ redis_client = "client"
    /\ chroma_service = "chroma"
    /\ gemini_client = "model"
    /\ translation_service = None
    /\ panchang_configured = FALSE
    /\ Fresh
    /\ first = NotFollowed
    /\ cache_call = NoCall
    /\ clearing = NoCall

NextCollide ==
    \/ \E id \in CollidingIdentities, lang \in {None, "en"} : StartRequest(id, lang)
    \/ CacheCheck
    \/ Classify
    \/ Panchang
    \/ Retrieve
    \/ Synthesize
    \/ Translate
    \/ CacheWrite
    \/ Respond

SpecCollide == InitCollide /\ [][NextCollide]_vars

-----------------------------------------------------------------------------
(* DELETE /cache/invalidate between generate_horoscope_direct calls *)

\* The service after startup with a cache and a Gemini client, the first
\* call that returns a result being followed
InitInvalidate ==
    /\ redis_client = "client"
    /\ chroma_service \in {"chroma", None}
    /\ gemini_client = "model"
    /\ translation_service = None
    /\ panchang_configured = FALSE
    /\ Fresh
    /\ first = NoCall
    /\ cache_call = NoCall
    /\ clearing = NoCall

\* invalidate_user_cache (api.py lines 272-292): the endpoint normalises the
\* identity as the request handler does, calls invalidate_cache and answers
\* with a message; the call is kept with the number of requests started so far
InvalidateUserCache(id) ==
    /\ pc = "Idle"
    /\ \E store_ok \in BOOLEAN :
        /\ store' = InvalidateStore(id.name, strftime(id.birth_date),
                                    OrEmpty(id.birth_time), OrEmpty(id.birth_place),
                                    store_ok)
        /\ first' = Touched(IF InvalidateOk(store_ok) THEN {KeyOf(id)} ELSE {})
        /\ cache_call' = [op |-> "invalidate_cache", identity |-> id,
                          reply |-> Reply(store_ok), result |-> InvalidateOk(store_ok),
                          message |-> IF InvalidateOk(store_ok)
                                      THEN "Cache invalidated for user: " \o id.name
                                      ELSE "No cache found for user or cache disabled",
                          nreq |-> nreq]
    /\ UNCHANGED <<config_vars, users, calls, vector_store, clearing, now, ticks, nreq, pc, call_vars>>

NextInvalidate ==
    \/ \E id \in Identities : StartRequest(id, None)
    \/ CacheCheck
    \/ Classify
    \/ Panchang
    \/ Retrieve
    \/ Synthesize
    \/ Translate
    \/ CacheWrite
    \/ Respond
    \/ \E id \in Identities : InvalidateUserCache(id)

SpecInvalidate == InitInvalidate /\ [][NextInvalidate]_vars

-----------------------------------------------------------------------------
(* HoroscopeService.generate_horoscope_direct called with a query_date *)

InitFingerprint ==
    /\ redis_client = "client"
    /\ chroma_service = "chroma"
    /\ gemini_client = "model"
    /\ translation_service \in {None, "initialized"}
    /\ panchang_configured = FALSE
    /\ Fresh
    /\ first = NoCall
    /\ cache_call = NoCall
    /\ clearing = NoCall

\* generate_horoscope_direct(request, query_date) is entered (lines 90-108):
\* an absent query_date becomes today
StartDirectCall(id, lang, query_date) ==
    /\ pc = "Idle"
    /\ nreq < MaxRequests
    /\ nreq' = nreq + 1
    /\ \E today \in Today :
           request' = [identity |-> id, language |-> lang,
                       query_date |-> IF query_date = Nil THEN today ELSE query_date]
    /\ pc' = "CacheCheck"
    /\ UNCHANGED <<config_vars, users, calls, vector_store, cache_call, clearing, store, now, ticks, read_ok,
                   cached_response, zodiac, failed_topics, all_horoscopes,
                   gemini_outcome, insight, translate_outcome, response,
                   cache_success, trace, first>>

\* The call returns or raises; the first one that returns is remembered with
\* its whole request
ReturnDirectCall ==
    /\ pc \in {"Done", "Error"}
    /\ first' = IF first = NoCall /\ pc = "Done"
                THEN [identity |-> request.identity, at |-> now,
                      response |-> response,
                      invoked |-> Contains(trace, "generate"),
                      intact |-> cache_success,
                      language |-> request.language,
                      query_date |-> request.query_date]
                ELSE first
    /\ pc' = "Idle"
    /\ request' = NoCall
    /\ read_ok' = FALSE
    /\ cached_response' = Nil
    /\ zodiac' = None
    /\ failed_topics' = {}
    /\ all_horoscopes' = <<>>
    /\ gemini_outcome' = NoOutcome
    /\ insight' = <<>>
    /\ translate_outcome' = NoOutcome
    /\ response' = NoResponse
    /\ cache_success' = FALSE
    /\ trace' = <<>>
    /\ UNCHANGED <<config_vars, users, calls, vector_store, cache_call, clearing, store, now, ticks, nreq>>

NextFingerprint ==
    \/ \E id \in Identities, lang \in {None, "Hi"}, query_date \in QueryDates :
           StartDirectCall(id, lang, query_date)
    \/ CacheCheck
    \/ Classify
    \/ Panchang
    \/ Retrieve
    \/ Synthesize
    \/ Translate
    \/ CacheWrite
    \/ ReturnDirectCall

SpecFingerprint == InitFingerprint /\ [][NextFingerprint]_vars

-----------------------------------------------------------------------------
(* Concurrent generate_horoscope_direct calls on one store *)

\* The service in each worker after startup, every collaborator there
InitConcurrent ==
    /\ redis_client = "client"
    /\ chroma_service = "chroma"
    /\ gemini_client = "model"
    /\ translation_service = "initialized"
    /\ panchang_configured = FALSE
    /\ Fresh
    /\ first = NotFollowed
    /\ cache_call = NoCall
    /\ clearing = NoCall

\* Call i is made (lines 90-108)
ConcurrentStart(i, id, lang) ==
    /\ calls[i].pc = "Idle"
    /\ calls' = [calls EXCEPT ![i] = [NotStarted EXCEPT
                     !.pc = "CacheCheck",
                     !.request = [identity |-> id, language |-> lang]]]
    /\ UNCHANGED <<config_vars, users, vector_store, cache_call, clearing, store, now, ticks, nreq, pc,
                   call_vars, first>>

\* Step 1 of call i (lines 110-132): one GET; a hit returns
ConcurrentCacheCheck(i) ==
    /\ calls[i].pc = "CacheCheck"
    /\ \E reply \in {"ok", "error"} :
        LET id == calls[i].request.identity
            got == get_cached_response(id.name, strftime(id.birth_date),
                                       OrEmpty(id.birth_time),
                                       OrEmpty(id.birth_place), reply)
        IN  calls' = [calls EXCEPT ![i] =
                IF got # Nil
                THEN [@ EXCEPT !.cached_response = got,
                               !.response = [zodiac |-> got.zodiac,
                                             insight |-> got.insight,
                                             language |-> got.language],
                               !.pc = "Done"]
                ELSE [@ EXCEPT !.pc = "Generate"]]
    /\ UNCHANGED <<config_vars, users, vector_store, cache_call, clearing, store, now, ticks, nreq, pc,
                   call_vars, first>>

\* Steps 2 to 6.5 of call i (lines 134-238): classification, retrieval,
\* synthesis and translation work on the locals of the call alone
ConcurrentGenerate(i) ==
    /\ calls[i].pc = "Generate"
    /\ \E raising \in {{}, Topics}, outcome \in GeminiOutcomes,
          translated \in TranslateOutcomes :
        LET req == calls[i].request
            sign == calculate_zodiac(req.identity.birth_date)
            retrieved == RetrieveAll(sign, raising)
            text == generate_coherent_horoscope(req.identity.name, sign,
                                                retrieved, outcome)
            english == [zodiac |-> capitalize(sign), insight |-> text,
                        language |-> "en"]
        IN  calls' = [calls EXCEPT ![i] =
                [@ EXCEPT !.response = TranslationStep(english, target_language(req),
                                                       translated),
                          !.pc = "CacheWrite"]]
    /\ UNCHANGED <<config_vars, users, vector_store, cache_call, clearing, store, now, ticks, nreq, pc,
                   call_vars, first>>

\* A write-through that sets the fields of an entry that is there one by one,
\* and is overtaken after the first
ConcurrentCacheWrite_fieldwise(i) ==
    /\ calls[i].pc = "CacheWrite"
    /\ LET id == calls[i].request.identity
       IN  /\ store' = IF store[KeyOf(id)] # NoEntry
                       THEN [store EXCEPT ![KeyOf(id)].value.json.insight =
                                              calls[i].response.insight]
                       ELSE CacheResponseStore(id.name, strftime(id.birth_date),
                                               OrEmpty(id.birth_time),
                                               OrEmpty(id.birth_place),
                                               calls[i].response, TRUE)
           /\ calls' = [calls EXCEPT ![i] = [@ EXCEPT !.cache_success = TRUE,
                                                      !.pc = "Done"]]
    /\ UNCHANGED <<config_vars, users, vector_store, cache_call, clearing, now, ticks, nreq, pc,
                   call_vars, first>>
\* Step 7 of call i (lines 240-256): one SETEX of the whole entry, then the
\* call returns
ConcurrentCacheWrite(i) ==
    /\ calls[i].pc = "CacheWrite"
    /\ \E store_ok \in BOOLEAN :
        LET id == calls[i].request.identity
        IN  /\ store' = CacheResponseStore(id.name, strftime(id.birth_date),
                                           OrEmpty(id.birth_time),
                                           OrEmpty(id.birth_place),
                                           calls[i].response, store_ok)
            /\ calls' = [calls EXCEPT ![i] =
                            [@ EXCEPT !.cache_success = CacheResponseOk(store_ok),
                                      !.pc = "Done"]]
    /\ UNCHANGED <<config_vars, users, vector_store, cache_call, clearing, now, ticks, nreq, pc,
                   call_vars, first>>

NextConcurrent ==
    \/ \E i \in 1..MaxRequests, id \in Identities, lang \in {None, "Hi"} :
           ConcurrentStart(i, id, lang)
    \/ \E i \in 1..MaxRequests : ConcurrentCacheCheck(i)
    \/ \E i \in 1..MaxRequests : ConcurrentGenerate(i)
    \/ \E i \in 1..MaxRequests : ConcurrentCacheWrite(i)

SpecConcurrent == InitConcurrent /\ [][NextConcurrent]_vars

-----------------------------------------------------------------------------
(* generate_horoscope_direct with collaborators that may not return *)

InitBlocking ==
    /\ redis_client = "client"
    /\ chroma_service = "chroma"
    /\ gemini_client = "model"
    /\ translation_service \in {None, "initialized"}
    /\ panchang_configured = FALSE
    /\ Fresh
    /\ first = NotFollowed
    /\ cache_call = NoCall
    /\ clearing = NoCall

\* The collaborator call of the stage the request is at does not return:
\* redis GET (cache_service.py line 67), collection.query (chroma_service.py
\* lines 161-165), generate_content (gemini_service.py line 42),
\* model.generate (translation_service.py), redis SETEX (lines 117-121).
\* None of them is given a timeout, so the request stays inside the call.
CollaboratorNeverReturns ==
    /\ \/ pc \in {"CacheCheck", "CacheWrite"} /\ redis_client # None
       \/ pc = "Retrieve" /\ chroma_service # None
       \/ pc = "Synthesize" /\ gemini_client # None
       \/ /\ pc = "Translate"
          /\ translation_service # None
          /\ target_language(request) # "en"
    /\ pc' = "Blocked"
    /\ trace' = Append(trace, "blocked")
    /\ UNCHANGED <<config_vars, users, calls, vector_store, cache_call, clearing, store, now, ticks, nreq,
                   request, read_ok, cached_response, zodiac, failed_topics,
                   all_horoscopes, gemini_outcome, insight, translate_outcome,
                   response, cache_success, first>>

NextBlocking ==
    \/ \E id \in Identities, lang \in {None, "Hi"} : StartRequest(id, lang)
    \/ CacheCheck
    \/ Classify
    \/ Panchang
    \/ Retrieve
    \/ Synthesize
    \/ Translate
    \/ CacheWrite
    \/ Respond
    \/ CollaboratorNeverReturns

\* The handler keeps running while it has a step to take
SpecBlocking == InitBlocking /\ [][NextBlocking]_vars /\ WF_vars(NextBlocking)

-----------------------------------------------------------------------------
(* app/startup.py: initialize_services, and the data endpoints *)

\* The collections a ChromaDB directory may hold
CollectionNames == {"horoscopes", "notes"}

\* Row counts of archive/horoscope_saved.csv
CsvSizes == {1, 2, 3}

\* The ChromaDB directories startup may find: documents only in a
\* "horoscopes" collection that is there
VectorStores ==
    { vs \in [collections : SUBSET CollectionNames, documents : {0} \cup CsvSizes] :
          "horoscopes" \notin vs.collections => vs.documents = 0 }

Max(a, b) == IF a > b THEN a ELSE b

\* load_horoscope_data (chroma_service.py lines 30-69) on a readable CSV:
\* every row is added to the collection under the id sign_date_idx
load_horoscope_data(vs, rows) ==
    [vs EXCEPT !.documents = Max(vs.documents, rows)]

\* The process before startup_event, on any ChromaDB directory: the module
\* globals chroma_service and translation_service are None
InitStartup ==
    /\ redis_client \in {"client", None}
    /\ chroma_service = None
    /\ gemini_client = "model"
    /\ translation_service = None
    /\ panchang_configured = FALSE
    /\ users = <<>>
    /\ calls = [i \in 1..MaxRequests |-> NotStarted]
    /\ vector_store \in VectorStores
    /\ store = [k \in Keys |-> NoEntry]
    /\ now = 0
    /\ ticks = 0
    /\ nreq = 0
    /\ pc = "CreateTables"
    /\ request = NoCall
    /\ read_ok = FALSE
    /\ cached_response = Nil
    /\ zodiac = None
    /\ failed_topics = {}
    /\ all_horoscopes = <<>>
    /\ gemini_outcome = NoOutcome
    /\ insight = <<>>
    /\ translate_outcome = NoOutcome
    /\ response = NoResponse
    /\ cache_success = FALSE
    /\ trace = <<>>
    /\ first = NotFollowed
    /\ cache_call = NoCall
    /\ clearing = NoCall

\* initialize_services returns False (lines 62-64) and startup_event makes a
\* HoroscopeService without collaborators (api.py lines 56-60)
StartupFailed ==
    /\ pc' = "Idle"
    /\ chroma_service' = None
    /\ translation_service' = None
    /\ vector_store' = vector_store

\* Step 1 (startup.py lines 23-26): create_tables, which may raise
CreateTables ==
    /\ pc = "CreateTables"
    /\ \E ok \in BOOLEAN :
          IF ok
          THEN /\ pc' = "ChromaServiceInit"
               /\ trace' = <<"create_tables">>
               /\ UNCHANGED <<chroma_service, translation_service, vector_store>>
          ELSE /\ StartupFailed
               /\ trace' = <<>>
    /\ UNCHANGED <<redis_client, gemini_client, panchang_configured, users, calls,
                   cache_call, clearing, store, now, ticks, nreq, request, read_ok,
                   cached_response, zodiac, failed_topics, all_horoscopes,
                   gemini_outcome, insight, translate_outcome, response,
                   cache_success, first>>

\* Step 2 (startup.py line 30; chroma_service.py lines 12-28): the client is
\* opened, and the "horoscopes" collection is taken or, where there is none,
\* created empty; the client or the creation may raise
ChromaServiceInit ==
    /\ pc = "ChromaServiceInit"
    /\ \E ok \in BOOLEAN :
          IF ok
          THEN /\ vector_store' = [vector_store EXCEPT
                                      !.collections = @ \cup {"horoscopes"}]
               /\ pc' = "LoadIfEmpty"
               /\ trace' = Append(trace, "get_or_create_collection")
               /\ UNCHANGED <<chroma_service, translation_service>>
          ELSE /\ StartupFailed
               /\ trace' = <<>>
    /\ UNCHANGED <<redis_client, gemini_client, panchang_configured, users, calls,
                   cache_call, clearing, store, now, ticks, nreq, request, read_ok,
                   cached_response, zodiac, failed_topics, all_horoscopes,
                   gemini_outcome, insight, translate_outcome, response,
                   cache_success, first>>

\* A startup with the translation service of the commented-out step 3
LoadIfEmpty_translating ==
    /\ pc = "LoadIfEmpty"
    /\ \E list_ok \in BOOLEAN, csv_ok \in BOOLEAN, rows \in CsvSizes :
          LET collections == vector_store.collections
          IN  IF ~list_ok
              THEN /\ vector_store' = vector_store
                   /\ trace' = <<"list_collections", "raised">>
              ELSE IF collections # {}
              THEN /\ vector_store' = vector_store
                   /\ trace' = <<"list_collections", "already_loaded">>
              ELSE IF ~csv_ok
              THEN /\ vector_store' = vector_store
                   /\ trace' = <<"list_collections", "load_horoscope_data", "raised">>
              ELSE /\ vector_store' = load_horoscope_data(vector_store, rows)
                   /\ trace' = <<"list_collections", "load_horoscope_data">>
    /\ chroma_service' = "chroma"
    /\ translation_service' = "initialized"
    /\ pc' = "Idle"
    /\ UNCHANGED <<redis_client, gemini_client, panchang_configured, users, calls,
                   cache_call, clearing, store, now, ticks, nreq, request, read_ok,
                   cached_response, zodiac, failed_topics, all_horoscopes,
                   gemini_outcome, insight, translate_outcome, response,
                   cache_success, first>>
\* Steps 2 and 3 (startup.py lines 32-60) and the wiring of startup_event
\* (api.py lines 48-54): the data is loaded when list_collections answers an
\* empty list; list_collections and the load may raise, which is logged; the
\* translation service is set to None
LoadIfEmpty ==
    /\ pc = "LoadIfEmpty"
    /\ \E list_ok \in BOOLEAN, csv_ok \in BOOLEAN, rows \in CsvSizes :
          LET collections == vector_store.collections
          IN  IF ~list_ok
              THEN /\ vector_store' = vector_store
                   /\ trace' = <<"list_collections", "raised">>
              ELSE IF collections # {}
              THEN /\ vector_store' = vector_store
                   /\ trace' = <<"list_collections", "already_loaded">>
              ELSE IF ~csv_ok
              THEN /\ vector_store' = vector_store
                   /\ trace' = <<"list_collections", "load_horoscope_data", "raised">>
              ELSE /\ vector_store' = load_horoscope_data(vector_store, rows)
                   /\ trace' = <<"list_collections", "load_horoscope_data">>
    /\ chroma_service' = "chroma"
    /\ translation_service' = None
    /\ pc' = "Idle"
    /\ UNCHANGED <<redis_client, gemini_client, panchang_configured, users, calls,
                   cache_call, clearing, store, now, ticks, nreq, request, read_ok,
                   cached_response, zodiac, failed_topics, all_horoscopes,
                   gemini_outcome, insight, translate_outcome, response,
                   cache_success, first>>

\* POST /load-data (api.py lines 226-236; horoscope_services.py lines
\* 258-264): the background task loads the CSV where there is a ChromaDB
\* service; an unreadable CSV raises in the task
LoadData ==
    /\ pc = "Idle"
    /\ nreq < MaxRequests
    /\ nreq' = nreq + 1
    /\ \E csv_ok \in BOOLEAN, rows \in CsvSizes :
          vector_store' = IF chroma_service # None /\ csv_ok
                          THEN load_horoscope_data(vector_store, rows)
                          ELSE vector_store
    /\ UNCHANGED <<config_vars, users, calls, cache_call, clearing, store, now, ticks, pc,
                   call_vars, first>>

NextStartup ==
    \/ CreateTables
    \/ ChromaServiceInit
    \/ LoadIfEmpty
    \/ LoadData

SpecStartup == InitStartup /\ [][NextStartup]_vars

-----------------------------------------------------------------------------
(* startup_event, then generate_horoscope_direct on the wired service *)

\* The process before startup_event, the vector store holding its data
InitWired ==
    /\ InitStartup
    /\ vector_store = Loaded

NextWired ==
    \/ CreateTables
    \/ ChromaServiceInit
    \/ LoadIfEmpty
    \/ \E id \in Identities, lang \in Languages : StartRequest(id, lang)
    \/ CacheCheck
    \/ Classify
    \/ Panchang
    \/ Retrieve
    \/ Synthesize
    \/ Translate
    \/ CacheWrite
    \/ Respond

SpecWired == InitWired /\ [][NextWired]_vars

-----------------------------------------------------------------------------
(* TranslationService.translate_text called with any text and language *)

\* model.generate calls of one translate_text, by their beam setting: none
\* without a model, for a blank text, for an unsupported language and when
\* the exception came before inputs was bound (the retry then raises
\* NameError before it calls the model); one when the first try went
\* through; two when the first try raised with inputs bound
model_generate_calls(text, language_code, outcome) ==
    IF translation_service # "initialized" THEN <<>>
    ELSE IF text = <<>> \/ strip(text) = <<>> THEN <<>>
    ELSE IF lower(language_code) \notin DOMAIN supported_languages THEN <<>>
    ELSE CASE outcome.first \in {"ok", "empty", "blank"} -> <<"num_beams=5">>
           [] outcome.first = "raise_pre" -> <<>>
           [] outcome.first = "raise_gen" -> <<"num_beams=5", "num_beams=1">>

\* A translate_text whose retry is not in a try of its own
translate_text_returns_unguarded(text, language_code, outcome) ==
    IF translation_service # "initialized" THEN "None"
    ELSE IF text = <<>> \/ strip(text) = <<>> THEN "text"
    ELSE IF lower(language_code) \notin DOMAIN supported_languages THEN "None"
    ELSE CASE outcome.first \in {"ok", "blank"} -> "str"
           [] outcome.first = "empty" -> "None"
           [] outcome.first = "raise_pre" -> "raises"
           [] outcome.first = "raise_gen" ->
                CASE outcome.second \in {"ok", "blank"} -> "str"
                  [] outcome.second = "empty" -> "None"
                  [] outcome.second = "raise" -> "raises"
\* How translate_text ends: it returns None, returns its argument (line
\* 192), returns a string of the model (lines 249-254, 287-290), or raises
translate_text_returns(text, language_code, outcome) ==
    IF translation_service # "initialized" THEN "None"
    ELSE IF text = <<>> \/ strip(text) = <<>> THEN "text"
    ELSE IF lower(language_code) \notin DOMAIN supported_languages THEN "None"
    ELSE CASE outcome.first \in {"ok", "blank"} -> "str"
           [] outcome.first = "empty" -> "None"
           [] outcome.first = "raise_pre" -> "None"
           [] outcome.first = "raise_gen" ->
                CASE outcome.second \in {"ok", "blank"} -> "str"
                  [] outcome.second = "empty" -> "None"
                  [] outcome.second = "raise" -> "None"

\* Texts handed to translate_text
Texts ==
    { <<>>, <<" ">>, <<"The stars favour you today.">>,
      _generate_fallback_insight("Asha", "capricorn") }

\* A deployment with a TranslationService, its model loaded or not
InitTranslate ==
    /\ redis_client = None
    /\ chroma_service = "chroma"
    /\ gemini_client = "model"
    /\ translation_service \in {"initialized", "uninitialized"}
    /\ panchang_configured = FALSE
    /\ Fresh
    /\ first = NotFollowed
    /\ cache_call = NoCall
    /\ clearing = NoCall

\* translate_text(text, target_language) is called; the arguments, what the
\* model did, the model calls made and the way the call ended are kept
CallTranslateText(text, language, outcome) ==
    /\ insight' = text
    /\ request' = [identity |-> Nil, language |-> language]
    /\ translate_outcome' = outcome
    /\ trace' = model_generate_calls(text, language, outcome)
    /\ response' = [returns |-> translate_text_returns(text, language, outcome),
                    text |-> translate_text(text, language, outcome)]
    /\ UNCHANGED <<config_vars, users, calls, vector_store, cache_call, clearing, store, now,
                   ticks, nreq, pc, read_ok, cached_response, zodiac, failed_topics,
                   all_horoscopes, gemini_outcome, cache_success, first>>

NextTranslate ==
    \E text \in Texts, language \in {"hi", "Hi", "ta", "fr"},
       outcome \in TranslateOutcomes :
        CallTranslateText(text, language, outcome)

SpecTranslate == InitTranslate /\ [][NextTranslate]_vars

-----------------------------------------------------------------------------
(* Properties *)

\* C1: whenever the cache read of a call returned an entry, the call is at
\* its return, its response is the zodiac, insight and language of that
\* entry, which is the one stored under the identity's key, and the cache
\* read is the only stage the call performed: no classification, Panchang
\* fetch, retrieval query, generation, translation or cache write.
C1_HitReturnsEntry ==
    cached_response \notin {Nil, Foreign} =>
        /\ pc = "Done"
        /\ cached_response = redis_get(KeyOf(request.identity)).json
        /\ response = [zodiac |-> cached_response.zodiac,
                       insight |-> cached_response.insight,
                       language |-> cached_response.language]
        /\ trace = <<"cache_read">>
        /\ zodiac = None
        /\ insight = <<>>
        /\ cache_success = FALSE

\* C1 witness: a call that returns a cached entry
C1_Hit ==
    /\ pc = "Done"
    /\ cached_response \notin {Nil, Foreign}
    /\ response.insight = cached_response.insight

\* C2, as stated: a call that returns a result within the TTL window of the
\* first call of the same identity did not invoke retrieval and generation
\* if the first did, and returns the first call's result.
C2_AtMostOneGeneration ==
    (/\ pc = "Done"
     /\ first \notin {NoCall, NotFollowed}
     /\ request.identity = first.identity
     /\ now < first.at + cache_ttl_minutes * SecondsPerMinute)
    => /\ ~(first.invoked /\ Contains(trace, "generate"))
       /\ response = first.response

\* C2, amended: when the first call wrote its result to the cache, the entry
\* was not invalidated, cleared or overwritten since, and a later call of the
\* same identity reads the cache successfully before the write time plus the
\* TTL, that call returns the first call's result and invokes neither
\* retrieval nor generation.
C2_CachedCallRepeats ==
    (/\ read_ok
     /\ first \notin {NoCall, NotFollowed}
     /\ request.identity = first.identity
     /\ first.intact
     /\ now < first.at + cache_ttl_minutes * SecondsPerMinute)
    => /\ pc = "Done"
       /\ response = first.response
       /\ ~Contains(trace, "query")
       /\ ~Contains(trace, "generate")

\* C2 witness: a later call of the same identity, after time has passed,
\* returns the result the first call generated and cached
C2_SecondCallHit ==
    /\ pc = "Done"
    /\ read_ok
    /\ first \notin {NoCall, NotFollowed}
    /\ request.identity = first.identity
    /\ first.intact
    /\ first.invoked
    /\ first.at < now
    /\ now < first.at + cache_ttl_minutes * SecondsPerMinute
    /\ response = first.response

\* C3: every stored entry expires cache_ttl_minutes * 60 seconds after it
\* was written and is gone from that instant on; a cache read that reaches
\* the store returns the entry exactly when the clock is strictly before
\* the write time plus the TTL.
C3_ExpiryAtTTL ==
    /\ \A k \in Keys :
          store[k] # NoEntry =>
              /\ store[k].expires = store[k].value.json.cached_at
                                    + cache_ttl_minutes * SecondsPerMinute
              /\ now < store[k].expires
    /\ read_ok =>
          LET entry == store[KeyOf(request.identity)]
          IN  cached_response # Nil <=>
                  /\ entry # NoEntry
                  /\ now < entry.value.json.cached_at
                           + cache_ttl_minutes * SecondsPerMinute

\* C3 witness: an entry returned in the last second of its TTL
C3_HitInLastSecond ==
    /\ read_ok
    /\ cached_response # Nil
    /\ now = cached_response.cached_at + cache_ttl_minutes * SecondsPerMinute - 1

\* C4, as stated: past the retrieval stage of a call whose search
\* collaborator was wholly unavailable (never initialised, or every one of
\* the five topic queries failed) the call is in Error, generation not due.
C4_UnavailableSearchIsFatal ==
    (/\ pc \in {"Synthesize", "Error"}
     /\ chroma_service = None \/ failed_topics = Topics)
    => pc = "Error"

\* C5: after the retrieval loop of a call, one query was issued for each of
\* the five topics whatever queries raised, all_horoscopes is the results
\* of the topics whose query did not raise, in topic order, a topic whose
\* query raised contributing nothing; and a call past its cache read ends in
\* Error only where there is no ChromaDB service at all.
C5_FailedTopicIsEmpty ==
    /\ pc = "Synthesize" =>
          LET got(c) == LET r == collection_query(zodiac, c)
                        IN  IF c \in failed_topics THEN <<>>
                            ELSE SubSeq(r, 1, Min(n_results, Len(r)))
          IN  /\ Cardinality({i \in DOMAIN trace : trace[i] = "query"}) = Len(categories)
              /\ all_horoscopes = got("general") \o got("love") \o got("career")
                                  \o got("health") \o got("money")
    /\ (pc = "Error" /\ cached_response # Foreign) => chroma_service = None

\* C5 witness: a retrieval loop in which one query raised and the others
\* returned their results
C5_OneTopicFailed ==
    /\ pc = "Synthesize"
    /\ failed_topics = {"love"}
    /\ Len(all_horoscopes) = 6

\* C6: when generation failed in a call (no client, a raise, no text or a
\* blank text), the insight is the fallback text of the user's name and the
\* zodiac label, which is not empty and contains both.
C6_FallbackInsight ==
    (/\ pc = "Translate"
     /\ \/ gemini_client = None
        \/ gemini_outcome.kind = "raise"
        \/ strip(gemini_outcome.text) = <<>>)
    => /\ insight = _generate_fallback_insight(request.identity.name, zodiac)
       /\ insight # <<>>
       /\ Contains(insight, request.identity.name)
       /\ Contains(insight, zodiac)

\* C6 witness: a call whose generation raised and which holds the fallback
C6_GenerationRaised ==
    /\ pc = "Translate"
    /\ gemini_client # None
    /\ gemini_outcome.kind = "raise"
    /\ Contains(insight, request.identity.name)

\* C7, as stated: the language of a returned result is the requested
\* language, lower-cased, or "en", and it is "en" for every request whose
\* language is "en" or unset.
C7_LanguageIsRequestedOrEnglish ==
    pc = "Done" =>
        /\ response.language \in {target_language(request), "en"}
        /\ request.language \in {None, "en"} => response.language = "en"

\* C8: a call that missed the cache, asked for a language other than English
\* and has no translation service builds, caches and returns the English
\* response with the synthesized insight, without a translation call; no
\* call is in Error once it holds an insight.
C8_NoTranslatorKeepsEnglish ==
    /\ (/\ pc \in {"CacheWrite", "Done"}
        /\ cached_response = Nil
        /\ translation_service = None
        /\ target_language(request) # "en")
       => /\ response = [zodiac |-> capitalize(zodiac), insight |-> insight,
                         language |-> "en"]
          /\ ~Contains(trace, "translate")
    /\ pc = "Error" => insight = <<>>

\* C8 witness: a Hindi request answered in English for want of a translator
C8_DowngradedToEnglish ==
    /\ pc = "Done"
    /\ cached_response = Nil
    /\ translation_service = None
    /\ request.language = "Hi"
    /\ response.language = "en"
    /\ response.insight = insight

\* C9: with a translation service, after a translation step that failed
\* (unsupported language code, model not initialised, no or empty output, a
\* raise in the first attempt not made good by the second) the response is
\* the English one with the synthesized insight; and no call is in Error
\* after generation.
C9_FailedTranslationKeepsEnglish ==
    /\ (/\ pc = "CacheWrite"
        /\ translation_service # None
        /\ target_language(request) # "en"
        /\ \/ ~is_language_supported(target_language(request))
           \/ translation_service = "uninitialized"
           \/ translate_outcome.first \in {"empty", "blank", "raise_pre"}
           \/ (translate_outcome.first = "raise_gen"
               /\ translate_outcome.second # "ok"))
       => response = [zodiac |-> capitalize(zodiac), insight |-> insight,
                      language |-> "en"]
    /\ pc = "Error" => ~Contains(trace, "generate")

\* C9 witness: both attempts of a Hindi translation raised and the response
\* stays English
C9_BothAttemptsRaised ==
    /\ pc = "CacheWrite"
    /\ translation_service = "initialized"
    /\ request.language = "Hi"
    /\ translate_outcome.first = "raise_gen"
    /\ translate_outcome.second = "raise"
    /\ response.language = "en"

\* C10: after a translation step that succeeded the response carries the
\* model's translation of the synthesized insight, the requested language
\* and the capitalised zodiac; and a freshly generated response has a
\* language other than "en" only when its insight is the model's
\* translation of the synthesized insight into that language.
C10_TranslatedResponse ==
    /\ (/\ pc = "CacheWrite"
        /\ translation_service = "initialized"
        /\ target_language(request) # "en"
        /\ is_language_supported(target_language(request))
        /\ \/ translate_outcome.first = "ok"
           \/ (translate_outcome.first = "raise_gen"
               /\ translate_outcome.second = "ok"))
       => response = [zodiac |-> capitalize(zodiac),
                      insight |-> model_generate(insight,
                                     supported_languages[target_language(request)]),
                      language |-> target_language(request)]
    /\ (/\ pc \in {"CacheWrite", "Done"}
        /\ cached_response = Nil
        /\ response.language # "en")
       => /\ response.language = target_language(request)
          /\ response.insight = model_generate(insight,
                                    supported_languages[response.language])

\* C10 witness: a Hindi translation made by the second attempt is returned
C10_TranslatedBySecondAttempt ==
    /\ pc = "CacheWrite"
    /\ translate_outcome # NoOutcome
    /\ translate_outcome.first = "raise_gen"
    /\ translate_outcome.second = "ok"
    /\ response.language = "hi"
    /\ response.insight = model_generate(insight, "hin_Deva")

\* C11: every call of a CacheService operation returns a value, and with the
\* store disabled (no client), unreachable or in error (the command raises)
\* or answering undecodable data, get_cached_response returns None,
\* cache_response, invalidate_cache and clear_all_cache return False and
\* get_cache_stats returns a record whose status is "disabled" or "error".
C11_CacheNeverRaises ==
    cache_call # NoCall =>
        LET down == redis_client = None \/ cache_call.reply = "error"
        IN  /\ (/\ cache_call.op = "get_cached_response"
                /\ down \/ cache_call.reply = "undecodable")
               => cache_call.result = Nil
            /\ cache_call.op \in {"cache_response", "invalidate_cache",
                                  "clear_all_cache"} =>
                  /\ cache_call.result \in BOOLEAN
                  /\ down => cache_call.result = FALSE
            /\ cache_call.op = "get_cache_stats" =>
                  /\ cache_call.result.status \in {"active", "disabled", "error"}
                  /\ redis_client = None => cache_call.result.status = "disabled"
                  /\ (redis_client # None /\ cache_call.reply = "error")
                         => cache_call.result.status = "error"

\* C11 witness: a lookup of a stored key answered with undecodable data
\* returns None
C11_UndecodableIsAbsent ==
    /\ cache_call # NoCall
    /\ cache_call.op = "get_cached_response"
    /\ cache_call.reply = "undecodable"
    /\ redis_client # None
    /\ Live(KeyOf(cache_call.identity))
    /\ cache_call.result = Nil

\* C12: on a cache miss the answer does not depend on the cache.  A read
\* that finds nothing, whether the store answered, failed or returned bytes
\* that do not decode, leads to Classify; the write step, stored or not, leaves
\* the response that the translation step built untouched and ends in Done,
\* never in Error.
C12_CacheFailuresAreInvisible ==
    [][/\ (pc = "CacheCheck" /\ cached_response' = Nil) =>
              (pc' = "Classify" /\ response' = response)
       /\ pc = "CacheWrite" =>
              /\ pc' = "Done"
              /\ response' = response
              /\ response' # NoResponse
              /\ response'.zodiac = capitalize(zodiac')]_vars

\* C12 witness: a call that missed returned its answer although the store,
\* which has a client, refused the write
C12_WriteFailedAnswerReturned ==
    /\ pc = "Done"
    /\ cached_response = Nil
    /\ redis_client # None
    /\ ~cache_success
    /\ response # NoResponse
    /\ response.insight # <<>>

\* C13: when a call that missed has returned and its write was stored, the
\* store holds under the fingerprint of the request's identity an entry whose
\* zodiac, insight and language are those of the returned response, and the
\* entry expires cache_ttl_minutes after the write; the text may be the
\* model's, the fallback sentence, or English kept after a downgrade.
C13_StoredEntryIsTheAnswer ==
    (pc = "Done" /\ cached_response = Nil /\ cache_success) =>
        LET entry == store[KeyOf(request.identity)]
        IN  /\ entry # NoEntry
            /\ entry.value.json.zodiac = response.zodiac
            /\ entry.value.json.insight = response.insight
            /\ entry.value.json.language = response.language
            /\ entry.expires = now + cache_ttl_minutes * SecondsPerMinute
            /\ redis_get(KeyOf(request.identity)) = entry.value

\* C13 witness: the fallback sentence, kept in English because there is no
\* translator for the requested Hindi, has been stored
C13_DowngradedFallbackStored ==
    /\ pc = "Done"
    /\ cached_response = Nil
    /\ cache_success
    /\ lower(request.language) = "hi"
    /\ response.language = "en"
    /\ response.insight = _generate_fallback_insight(request.identity.name, zodiac)
    /\ store[KeyOf(request.identity)].value.json.insight = response.insight

\* C14, as stated: a call is in Error only out of the retrieval stage and
\* only when the search collaborator is unavailable, whatever the cache
\* store, Panchang, generation and the translator did or replied; every other
\* call that ends holds a complete result: a zodiac, a non-empty insight and
\* a language.
C14_ErrorOnlyFromRetrieve ==
    /\ pc = "Error" => (chroma_service = None /\ Contains(trace, "classify"))
    /\ pc = "Done" =>
          /\ response # NoResponse
          /\ response.zodiac # None
          /\ response.insight # <<>>
          /\ response.language # None

\* C15: an invalidate_cache that returns True has deleted the entry under the
\* fingerprint of its identity and nothing else: every other key keeps its
\* entry, an absent key leaves the store as it was, and invalidating the same
\* identity once more would leave the store as the first invalidation left it.
C15_InvalidateDeletesOneKey ==
    [][(/\ cache_call' # NoCall
        /\ cache_call' # cache_call
        /\ cache_call'.op = "invalidate_cache"
        /\ cache_call'.result = TRUE)
       => \E id \in Identities :
              /\ id = cache_call'.identity
              /\ store' = [store EXCEPT ![KeyOf(id)] = NoEntry]
              /\ store[KeyOf(id)] = NoEntry => store' = store
              /\ InvalidateStore(id.name, strftime(id.birth_date),
                                 OrEmpty(id.birth_time), OrEmpty(id.birth_place),
                                 TRUE)' = store']_vars

\* C15 witness: an invalidation has returned True, the key of its identity
\* is gone and the entry of the other identity is still live
C15_OtherEntryKept ==
    /\ cache_call # NoCall
    /\ cache_call.op = "invalidate_cache"
    /\ cache_call.result = TRUE
    /\ store[KeyOf(cache_call.identity)] = NoEntry
    /\ \E k \in Keys : Live(k)

\* C16, as stated: in the state in which clear_all_cache has returned True no
\* "horoscope:" key exists in the store, also when other clients of the
\* store write entries while the call runs.
C16_ClearedStoreIsEmpty ==
    (/\ cache_call # NoCall
     /\ cache_call.op = "clear_all_cache"
     /\ cache_call.result = TRUE)
    => redis_keys = {}

\* C17: calculate_zodiac answers for every (month, day) of the calendar,
\* February 29 included, with one of the twelve labels, the one whose period
\* in the table holds the date: the label of the latest start day not after
\* it, Capricorn running over the turn of the year.  1990-01-01 and
\* 2000-12-25 are capricorn, 1995-08-15 is leo, 1985-06-21 is gemini, and
\* March 21, a start day, is aries.
C17_ZodiacFollowsTheTable ==
    LET Starts == { <<120, "aquarius">>, <<219, "pisces">>, <<321, "aries">>,
                    <<420, "taurus">>, <<521, "gemini">>, <<622, "cancer">>,
                    <<723, "leo">>, <<823, "virgo">>, <<923, "libra">>,
                    <<1023, "scorpio">>, <<1122, "sagittarius">>,
                    <<1222, "capricorn">> }
        Labels == {st[2] : st \in Starts}
        Ordinal(d) == d.month * 100 + d.day
        Begun(d) == {st \in Starts : st[1] <= Ordinal(d)}
        Label(d) == IF Begun(d) = {} THEN "capricorn"
                    ELSE (CHOOSE st \in Begun(d) :
                             \A other \in Begun(d) : other[1] <= st[1])[2]
        birth_date == request.identity.birth_date
    IN  (request # NoCall /\ zodiac # None) =>
            /\ zodiac \in Labels
            /\ Cardinality(Labels) = 12
            /\ zodiac = Label(birth_date)
            /\ birth_date \in {Date(1990, 1, 1), Date(2000, 12, 25)}
                  => zodiac = "capricorn"
            /\ birth_date = Date(1995, 8, 15) => zodiac = "leo"
            /\ birth_date = Date(1985, 6, 21) => zodiac = "gemini"
            /\ (birth_date.month = 3 /\ birth_date.day = 21) => zodiac = "aries"

\* C17 witness: a birth date of March 21 has been classified
C17_FirstDayOfAries ==
    /\ request # NoCall
    /\ request.identity.birth_date = Date(2000, 3, 21)
    /\ zodiac = "aries"
    /\ Contains(trace, "classify")

\* C18: the key derived for an identity is "horoscope:" followed by the
\* digest of its four strings; any identity with the same four strings, an
\* absent birth time or birth place counting as the empty string, gets the
\* same key, and any identity that differs from it in exactly one of the
\* four gets a different one.
C18_KeyIsAFunctionOfTheIdentity ==
    (cache_call # NoCall /\ cache_call.op = "_generate_cache_key") =>
        LET a == KeyComponents(cache_call.identity)
            Differing(b) == {i \in 1..4 : KeyComponents(b)[i] # a[i]}
        IN  /\ SubSeq(cache_call.result, 1, 10) = "horoscope:"
            /\ cache_call.result =
                   "horoscope:" \o md5_hexdigest(a[1] \o "_" \o a[2] \o "_"
                                                 \o a[3] \o "_" \o a[4])
            /\ \A b \in KeyIdentities :
                  /\ Differing(b) = {} => KeyOf(b) = cache_call.result
                  /\ Cardinality(Differing(b)) = 1 => KeyOf(b) # cache_call.result

\* C18 witness: the key of an identity without birth time and place has been
\* derived, and the identity whose time and place are empty strings shares it
C18_AbsentIsEmpty ==
    /\ cache_call # NoCall
    /\ cache_call.op = "_generate_cache_key"
    /\ cache_call.identity.birth_time = None
    /\ cache_call.identity.birth_place = None
    /\ \E b \in KeyIdentities :
          /\ b.birth_time = "" /\ b.birth_place = ""
          /\ KeyOf(b) = cache_call.result

\* C19: a generate_horoscope call whose user_id has no row in the users
\* table, once its lookup has answered, has failed with ValueError, which the
\* endpoint answers with HTTP 404; the lookup is the only thing the call did:
\* no Panchang, retrieval or generation call was made for it.
C19_UnknownUserIsNotFound ==
    (/\ request # NoCall
     /\ pc \in {"UserPanchang", "UserRetrieve", "UserGenerate", "Done", "NotFound", "Error"}
     /\ request.user_id \notin 1..Len(users)
     /\ response # InternalError("user_lookup"))
    => /\ pc = "NotFound"
       /\ response = NotFound(request.user_id)
       /\ response.status = 404
       /\ trace = <<"user_lookup">>
       /\ all_horoscopes = <<>>
       /\ insight = <<>>

\* C19 witness: with a user in the table, a request for another id has been
\* answered 404
C19_NotFoundBesideAUser ==
    /\ pc = "NotFound"
    /\ Len(users) > 0
    /\ request.user_id = Len(users) + 1
    /\ response.status = 404

\* C20: within one call the stages follow one another only in the order
\* cache read, classification, (Panchang,) retrieval, synthesis, translation,
\* cache write, return, each entered at most once: every step of a call moves
\* it to a later stage, or to Error or back to Idle at its end.  The
\* collaborator calls made so far are always a beginning of: the cache read,
\* the classification, five topic queries, one generation, at most one
\* translation, the cache write; so generation comes after all five queries,
\* translation after generation, and the write after translation was
\* decided.
C20_StagesInOrder ==
 [][LET Rank(p) == CASE p = "Idle" -> 0 [] p = "CacheCheck" -> 1
                     [] p = "Classify" -> 2 [] p = "Panchang" -> 3
                     [] p = "Retrieve" -> 4 [] p = "Synthesize" -> 5
                     [] p = "Translate" -> 6 [] p = "CacheWrite" -> 7
                     [] p = "Done" -> 8 [] p = "Error" -> 8
        Queries == [i \in 1..Len(categories) |-> "query"]
        Order(translated) ==
            <<"cache_read", "classify">> \o Queries \o <<"generate">>
            \o (IF translated THEN <<"translate">> ELSE <<>>) \o <<"cache_write">>
        Calls(t) == SelectSeq(t, LAMBDA tok : tok # "panchang")
        Begins(t, full) == Len(t) <= Len(full) /\ t = SubSeq(full, 1, Len(t))
        Made(p) == CASE p = "CacheCheck" -> 0 [] p = "Classify" -> 1
                     [] p = "Panchang" -> 2 [] p = "Retrieve" -> 2
                     [] p = "Synthesize" -> 2 + Len(categories)
                     [] p = "Translate" -> 3 + Len(categories)
    IN  /\ pc' # pc =>
              \/ pc = "Idle" /\ pc' = "CacheCheck"
              \/ pc \in {"Done", "Error"} /\ pc' = "Idle"
              \/ pc \notin {"Idle", "Done", "Error"} /\ Rank(pc) < Rank(pc')
        /\ pc' = pc => (pc = "Idle" /\ trace' = <<>>)
        /\ \E translated \in BOOLEAN : Begins(Calls(trace'), Order(translated))
        /\ pc' \in {"CacheCheck", "Classify", "Panchang", "Retrieve",
                     "Synthesize", "Translate"}
              => Len(Calls(trace')) = Made(pc')
        /\ pc' = "CacheWrite" =>
              Len(Calls(trace')) \in {3 + Len(categories), 4 + Len(categories)}]_vars

\* C20 witness: a call has returned after every stage, translation included
C20_AllStagesDone ==
    /\ pc = "Done"
    /\ Contains(trace, "translate")
    /\ trace[Len(trace)] = "cache_write"
    /\ Len(SelectSeq(trace, LAMBDA tok : tok = "query")) = Len(categories)

\* C21: after the retrieval loop of a call that missed the cache, exactly
\* one query was issued for each topic of the five-topic list; every item
\* retrieved carries the zodiac sign of the request (the exact-match filter),
\* no topic contributed more than two items, and the aggregate is the
\* per-topic lists joined in the order of the topic list, a failed topic
\* contributing the empty list, so that it holds at most ten items.
C21_TwoPerTopicInTopicOrder ==
    pc = "Synthesize" =>
        LET limit == 2
            PerTopic(i) ==
                IF categories[i] \in failed_topics THEN <<>>
                ELSE LET found == collection_query(zodiac, categories[i])
                     IN  [k \in 1..Min(limit, Len(found)) |-> found[k]]
            Offset(i) == IF i = 1 THEN 0
                         ELSE Len(PerTopic(1)) + (IF i > 2 THEN Len(PerTopic(2)) ELSE 0)
                              + (IF i > 3 THEN Len(PerTopic(3)) ELSE 0)
                              + (IF i > 4 THEN Len(PerTopic(4)) ELSE 0)
        IN  /\ Len(categories) = 5
            /\ Len(SelectSeq(trace, LAMBDA tok : tok = "query")) = Len(categories)
            /\ Len(all_horoscopes) <= limit * Len(categories)
            /\ Len(all_horoscopes) = Offset(5) + Len(PerTopic(5))
            /\ \A i \in 1..Len(categories) :
                  /\ Len(PerTopic(i)) <= limit
                  /\ \A k \in 1..Len(PerTopic(i)) :
                        all_horoscopes[Offset(i) + k] = PerTopic(i)[k]
            /\ \A k \in 1..Len(all_horoscopes) :
                  all_horoscopes[k].metadata.sign = zodiac

\* C21 witness: every query answered, the first topic's three documents were
\* cut to two, and the aggregate holds the seven items of the five topics
C21_AllTopicsAnswered ==
    /\ pc = "Synthesize"
    /\ failed_topics = {}
    /\ Len(collection_query(zodiac, categories[1])) > 2
    /\ Len(all_horoscopes) = 7
    /\ all_horoscopes[3].metadata.category = "love"

\* C22, as stated: in the evidence block built from the items retrieved for
\* a call, the items are grouped by their category, one section a category,
\* and within every section the entries are in order of descending relevance
\* score.
C22_SectionsSortedByRelevance ==
    pc = "Synthesize" =>
        LET block == _format_retrieved_horoscopes_by_category(all_horoscopes)
        IN  /\ \A g, h \in 1..Len(block.sections) :
                  g # h => block.sections[g].header # block.sections[h].header
            /\ \A g \in 1..Len(block.sections) :
                  \A k \in 1..(Len(block.sections[g].entries) - 1) :
                      block.sections[g].entries[k].relevance_score
                          >= block.sections[g].entries[k + 1].relevance_score

\* C23: whatever the client did (a text, an empty text, a text of white
\* space only, an exception, or no client at all) and whatever the item list,
\* one that makes the formatting raise included, generate_coherent_horoscope
\* returned a text that is not empty: the client's text without its
\* surrounding white space when the formatting went through and that text is
\* not empty, the fallback sentence in every other case.
C23_SynthesisAlwaysAnswers ==
    gemini_outcome # NoOutcome =>
        LET fallback == _generate_fallback_insight(request.identity.name, zodiac)
            answered == /\ gemini_client # None
                        /\ gemini_outcome.kind = "text"
                        /\ strip(gemini_outcome.text) # <<>>
                        /\ ~formatting_raises(all_horoscopes)
        IN  /\ insight # <<>>
            /\ fallback # <<>>
            /\ answered => /\ insight = strip(gemini_outcome.text)
                            /\ Head(insight) \notin Whitespace
                            /\ insight[Len(insight)] \notin Whitespace
            /\ ~answered => insight = fallback

\* C23 witness: the client would have answered with a text, an item without
\* a distance made the formatting raise, and the fallback was returned
C23_FormattingRaisedFallback ==
    /\ gemini_outcome # NoOutcome
    /\ gemini_client # None
    /\ gemini_outcome.kind = "text"
    /\ strip(gemini_outcome.text) # <<>>
    /\ formatting_raises(all_horoscopes)
    /\ insight = _generate_fallback_insight(request.identity.name, zodiac)

\* C24: the sign of the day after a classified date is the sign of the date
\* or the next sign of the cycle aries, taurus, gemini, cancer, leo, virgo,
\* libra, scorpio, sagittarius, capricorn, aquarius, pisces, the day after
\* December 31 being January 1; over the year the sign changes exactly
\* twelve times, so each sign is one unbroken range; December 31 and January
\* 1 are both capricorn, and no sign other than capricorn holds both a day of
\* December and a day of January.
C24_SignsFollowTheCycle ==
    LET Cycle == <<"aries", "taurus", "gemini", "cancer", "leo", "virgo", "libra",
                   "scorpio", "sagittarius", "capricorn", "aquarius", "pisces">>
        Successor(z) == LET i == CHOOSE k \in 1..12 : Cycle[k] = z
                        IN  Cycle[(i % 12) + 1]
        NextDay(d) == IF d.day < DaysIn(d.month) THEN Date(d.year, d.month, d.day + 1)
                      ELSE IF d.month < 12 THEN Date(d.year, d.month + 1, 1)
                      ELSE Date(d.year + 1, 1, 1)
        Year == {d \in BirthDates : d.year = 2000}
        Changes == {d \in Year : calculate_zodiac(NextDay(d)) # calculate_zodiac(d)}
        birth_date == request.identity.birth_date
    IN  (request # NoCall /\ zodiac # None) =>
            /\ zodiac \in {Cycle[k] : k \in 1..12}
            /\ calculate_zodiac(NextDay(birth_date)) \in {zodiac, Successor(zodiac)}
            /\ Cardinality(Changes) = 12
            /\ (birth_date.month = 12 /\ birth_date.day = 31) =>
                   /\ zodiac = "capricorn"
                   /\ calculate_zodiac(NextDay(birth_date)) = "capricorn"
            /\ ((\E d \in Year : d.month = 12 /\ calculate_zodiac(d) = zodiac)
                /\ (\E d \in Year : d.month = 1 /\ calculate_zodiac(d) = zodiac))
               => zodiac = "capricorn"

\* C24 witness: December 31 has been classified, as capricorn
C24_LastDayOfTheYear ==
    /\ request # NoCall
    /\ request.identity.birth_date = Date(2000, 12, 31)
    /\ zodiac = "capricorn"
    /\ Contains(trace, "classify")

\* C25, as stated: identities whose four strings (name, birth date, birth
\* time or "", birth place or "") differ in one or more places never get the
\* same key.
C25_DistinctIdentitiesDistinctKeys ==
    (cache_call # NoCall /\ cache_call.op = "_generate_cache_key") =>
        \A b \in KeyIdentities :
            KeyComponents(b) # KeyComponents(cache_call.identity)
                => KeyOf(b) # cache_call.result

\* C26, as stated: the zodiac of every result a call returns, from the cache
\* or freshly generated, is the capitalised sign of the birth date of that
\* call's own request.
C26_ZodiacOfOwnBirthDate ==
    pc = "Done" =>
        response.zodiac = capitalize(calculate_zodiac(request.identity.birth_date))

\* C27: once the invalidate endpoint has answered success for an identity,
\* the key the request handler derives for that identity holds no entry, and
\* the first call made afterwards with that identity does not get an entry
\* from the store: it goes on to classification, and when it returns a
\* result it has issued the five queries and invoked generation again.  (It
\* fails only where there is no search collaborator, as any call that misses.)
C27_InvalidatedThenMiss ==
    (/\ cache_call # NoCall
     /\ cache_call.op = "invalidate_cache"
     /\ cache_call.result = TRUE)
    => /\ (pc = "Idle" /\ nreq = cache_call.nreq)
             => store[KeyOf(cache_call.identity)] = NoEntry
       /\ (/\ request # NoCall
           /\ request.identity = cache_call.identity
           /\ nreq = cache_call.nreq + 1
           /\ cached_response # Foreign)
          => /\ pc = "CacheCheck" => redis_get(KeyOf(request.identity)) = Nil
             /\ cached_response = Nil
             /\ pc # "CacheCheck" => Contains(trace, "cache_read")
             /\ pc \notin {"CacheCheck", "Classify"} => Contains(trace, "classify")
             /\ pc = "Error" => chroma_service = None
             /\ pc = "Done" =>
                   /\ Len(SelectSeq(trace, LAMBDA tok : tok = "query")) = Len(categories)
                   /\ Contains(trace, "generate")
                   /\ Live(KeyOf(request.identity)) = cache_success

\* C27 witness: the first call cached its result, the entry was invalidated,
\* and the next call of the same identity has generated a result anew
C27_RegeneratedAfterInvalidate ==
    /\ first \notin {NoCall, NotFollowed}
    /\ first.invoked
    /\ ~first.intact
    /\ cache_call # NoCall
    /\ cache_call.op = "invalidate_cache"
    /\ cache_call.result = TRUE
    /\ cache_call.identity = first.identity
    /\ request # NoCall
    /\ request.identity = first.identity
    /\ nreq = cache_call.nreq + 1
    /\ pc = "Done"
    /\ Contains(trace, "generate")

\* C28: whatever language and query_date a call was made with, the entry its
\* cache read answers from is the one under the fingerprint of its name,
\* birth_date, birth_time and birth_place, and the only entry its write-through
\* changes is that one.
C28_EntryChosenByIdentityAlone ==
    [][LET id == request.identity
           key == _generate_cache_key(id.name, strftime(id.birth_date),
                                      OrEmpty(id.birth_time), OrEmpty(id.birth_place))
       IN  /\ (pc = "CacheCheck" /\ pc' # "CacheCheck" /\ read_ok')
                => /\ cached_response' = IF Live(key) THEN store[key].value.json ELSE Nil
                   /\ store' = store
           /\ (pc = "CacheWrite" /\ pc' = "Done")
                => /\ \A k \in Keys \ {key} : store'[k] = store[k]
                   /\ cache_success' => /\ store'[key] # NoEntry
                                        /\ store'[key].value.json.zodiac = response.zodiac
                                        /\ store'[key].value.json.insight = response.insight
                                        /\ store'[key].value.json.language = response.language
                   /\ ~cache_success' => store' = store]_vars

\* C28 witness: a call in another language and for another query_date than
\* the call that wrote the entry has been answered from that entry
C28_HitAcrossLanguageAndDate ==
    /\ first \notin {NoCall, NotFollowed}
    /\ first.intact
    /\ first.invoked
    /\ pc = "Done"
    /\ read_ok
    /\ request.identity = first.identity
    /\ request.language # first.language
    /\ request.query_date # first.query_date
    /\ cached_response # Nil
    /\ response = first.response
    /\ ~Contains(trace, "generate")

\* C29: the cache read of a call, and the return of a call that was answered
\* from the cache, leave every entry of the store and its expiry as they
\* were; an entry that is served is served less than the TTL after the
\* write that stored it, and still expires the TTL after that write.
C29_HitWritesNothing ==
    [][LET hit == cached_response \notin {Nil, Foreign}
       IN  /\ pc = "CacheCheck" => store' = store
           /\ hit =>
                /\ store' = store
                /\ now < cached_response.cached_at + cache_ttl_minutes * SecondsPerMinute
                /\ store[KeyOf(request.identity)].expires
                      = cached_response.cached_at + cache_ttl_minutes * SecondsPerMinute]_vars

\* C29 witness: an entry served some time after it was written, its expiry
\* still the TTL after the write
C29_HitAfterSomeTime ==
    /\ pc = "Done"
    /\ read_ok
    /\ cached_response \notin {Nil, Foreign}
    /\ cached_response.cached_at < now
    /\ store[KeyOf(request.identity)].expires
          = cached_response.cached_at + cache_ttl_minutes * SecondsPerMinute

\* C30: no call of the cache service (get, put, invalidate, clear, stats)
\* and no passing of time changes its redis_client; a service that came up
\* without a client leaves the store alone and answers every get with
\* nothing, every put, invalidate and clear with False, and stats with
\* "disabled".
C30_ServiceStateIsFixed ==
    [][/\ redis_client' = redis_client
       /\ redis_client = None =>
            /\ store' = store
            /\ clearing' = NoCall
            /\ cache_call' # NoCall =>
                 /\ cache_call'.op = "get_cached_response" => cache_call'.result = Nil
                 /\ cache_call'.op \in {"cache_response", "invalidate_cache",
                                        "clear_all_cache"}
                      => cache_call'.result = FALSE
                 /\ cache_call'.op = "get_cache_stats"
                      => cache_call'.result.status = "disabled"]_vars

\* C30 witness: a service without a client that has refused to clear, after
\* time has passed
C30_DisabledRefusesClear ==
    /\ redis_client = None
    /\ ticks > 0
    /\ cache_call # NoCall
    /\ cache_call.op = "clear_all_cache"
    /\ cache_call.reply = "ok"
    /\ cache_call.result = FALSE

\* C31: with concurrent calls on one store, every call that has returned
\* holds a complete result (the label of its birth date, a non-empty
\* insight, a language), and every entry in the store is, field for field,
\* the result of one call of that identity that has made its write.
C31_EntryIsOneCallsResult ==
    /\ \A i \in 1..MaxRequests :
          calls[i].pc = "Done" =>
              /\ calls[i].response # NoResponse
              /\ calls[i].response.zodiac
                    = capitalize(calculate_zodiac(calls[i].request.identity.birth_date))
              /\ calls[i].response.insight # <<>>
              /\ calls[i].response.language \in DOMAIN supported_languages
    /\ \A id \in Identities :
          store[KeyOf(id)] # NoEntry =>
              \E i \in 1..MaxRequests :
                  /\ calls[i].pc = "Done"
                  /\ calls[i].cache_success
                  /\ calls[i].request.identity = id
                  /\ store[KeyOf(id)].value.json.zodiac = calls[i].response.zodiac
                  /\ store[KeyOf(id)].value.json.insight = calls[i].response.insight
                  /\ store[KeyOf(id)].value.json.language = calls[i].response.language

\* C31 witness: two calls of one identity both missed and both wrote, with
\* different results
C31_TwoWritersOneKey ==
    \E i, j \in 1..MaxRequests :
        /\ i # j
        /\ calls[i].pc = "Done" /\ calls[j].pc = "Done"
        /\ calls[i].request.identity = calls[j].request.identity
        /\ calls[i].cache_success /\ calls[j].cache_success
        /\ calls[i].cached_response = Nil /\ calls[j].cached_response = Nil
        /\ calls[i].response.insight # calls[j].response.insight
        /\ calls[i].response.language # calls[j].response.language

\* C32, as stated: every request that has entered the handler eventually
\* reaches Done or Error, a collaborator call that does not return being
\* cut off and taken for a failure.
C32_EveryRequestEnds ==
    (pc = "CacheCheck") ~> (pc \in {"Done", "Error"})

\* C33: every entry in the store has a non-empty insight, one of the twelve
\* capitalised labels as zodiac and "en" or a supported code as language,
\* and an entry is created or replaced only by the write-through of a call
\* that missed and has synthesized; the Error path, the hit path and every
\* other step create and modify none.
C33_EntriesComeFromTheMissPath ==
    [][LET labels == {"Aries", "Taurus", "Gemini", "Cancer", "Leo", "Virgo", "Libra",
                      "Scorpio", "Sagittarius", "Capricorn", "Aquarius", "Pisces"}
       IN  \A k \in Keys :
             /\ store'[k] # NoEntry =>
                   /\ store'[k].value.json.insight # <<>>
                   /\ store'[k].value.json.zodiac \in labels
                   /\ store'[k].value.json.language \in DOMAIN supported_languages
             /\ (store'[k] # NoEntry /\ store'[k] # store[k]) =>
                   /\ pc = "CacheWrite"
                   /\ pc' = "Done"
                   /\ k = KeyOf(request.identity)
                   /\ cached_response = Nil
                   /\ Contains(trace, "classify")
                   /\ Contains(trace, "generate")
                   /\ store'[k].value.json.insight = response.insight
             /\ pc \in {"Done", "Error"} => store'[k] = store[k]]_vars

\* C33 witness: the entry of a call that missed, synthesized and translated
C33_TranslatedEntryStored ==
    /\ pc = "Done"
    /\ cache_success
    /\ Contains(trace, "generate")
    /\ Contains(trace, "translate")
    /\ store[KeyOf(request.identity)] # NoEntry
    /\ store[KeyOf(request.identity)].value.json.language = "hi"
    /\ store[KeyOf(request.identity)].value.json.insight = response.insight

\* C34, as stated: once initialize_services has returned True with nothing
\* raised on the way, the "horoscopes" collection holds data: the data that
\* was there, or the CSV data loaded because none was.
C34_DataLoadedAtStartup ==
    (/\ pc = "Idle"
     /\ nreq = 0
     /\ chroma_service # None
     /\ ~Contains(trace, "raised"))
    => vector_store.documents > 0

\* C35, as stated: when the Gemini call of a generation failed or came back
\* empty and the fallback text was used, the client had been called again
\* before that: at least two generate_content calls were made.
C35_FailedCallIsRetried ==
    (/\ gemini_outcome # NoOutcome
     /\ gemini_client # None
     /\ ~formatting_raises(all_horoscopes)
     /\ gemini_outcome.kind = "raise" \/ gemini_outcome.text = <<>>
     /\ insight = _generate_fallback_insight(request.identity.name, zodiac))
    => Len(SelectSeq(trace, LAMBDA tok : tok = "generate_content")) >= 2

\* C36: in the service as initialize_services and startup_event wire it, the
\* translation service is None before, during and after startup; no call
\* invokes the translator, and every result that was generated in the call
\* has language "en" whatever language was requested.
C36_WiredServiceAnswersInEnglish ==
    /\ translation_service = None
    /\ ~Contains(trace, "translate")
    /\ translate_outcome = NoOutcome
    /\ (pc \in {"CacheWrite", "Done"} /\ Contains(trace, "generate"))
          => response.language = "en"
    /\ \A k \in Keys : store[k] # NoEntry => store[k].value.json.language = "en"

\* C36 witness: a request for Hindi answered with a freshly generated result
\* in English
C36_HindiRequestedEnglishReturned ==
    /\ pc = "Done"
    /\ Contains(trace, "generate")
    /\ request.language = "Hi"
    /\ response.language = "en"
    /\ chroma_service # None

\* C37: a call of translate_text makes at most two model.generate calls, the
\* second, with the simpler parameters, only after an exception in the first
\* try; it never raises; and it returns None when the second attempt raised
\* or gave no translation and when the exception came before the inputs
\* were there, in which case the model is not called a second time.
C37_AtMostTwoAttemptsNeverRaises ==
    translate_outcome # NoOutcome =>
        LET attempted == /\ translation_service = "initialized"
                         /\ strip(insight) # <<>>
                         /\ is_language_supported(request.language)
        IN  /\ Len(trace) <= 2
            /\ response.returns \in {"None", "text", "str"}
            /\ Len(trace) = 2 =>
                  /\ translate_outcome.first = "raise_gen"
                  /\ trace = <<"num_beams=5", "num_beams=1">>
            /\ (attempted /\ translate_outcome.first = "raise_gen"
                  /\ translate_outcome.second \in {"raise", "empty"})
                  => /\ response.returns = "None"
                     /\ response.text = <<>>
                     /\ Len(trace) = 2
            /\ (attempted /\ translate_outcome.first = "raise_pre")
                  => /\ response.returns = "None"
                     /\ response.text = <<>>
                     /\ trace = <<>>
            /\ response.returns = "None" => response.text = <<>>
            /\ ~attempted => trace = <<>>

\* C37 witness: the first attempt raised in generate, the retry raised too,
\* and the call returned None after two model calls
C37_RetryRaisedToo ==
    /\ translate_outcome # NoOutcome
    /\ translate_outcome.first = "raise_gen"
    /\ translate_outcome.second = "raise"
    /\ Len(trace) = 2
    /\ response.returns = "None"

====
